---- MODULE Spec2Model ----
(***************************************************************************)
(* pg-orm: the MongoDB-style query compiler (lib/mongo-converter.ts), the  *)
(* model layer that assembles and issues statements (lib/schema.ts), the   *)
(* Document instance (document.ts) and the transaction wrapper             *)
(* (connection.ts), modelled as state machines.                            *)
(*                                                                         *)
(* SQL text is a sequence of tokens [s, u]: s is the text of the token and *)
(* u records where the text came from ("code": emitted by the compiler as  *)
(* SQL structure, "lit": emitted by the compiler inside a literal, "val":  *)
(* characters of a caller-supplied operand, "path": characters of a        *)
(* caller-supplied field path, "idx": digits of a numeric path segment).   *)
(* Every function that reads SQL text (the renumber pass, the lexer, the   *)
(* evaluator) reads s only. A string is a sequence of pieces: every        *)
(* character that some function of the program inspects (quote, dollar,    *)
(* digit, dot, slash, backslash, double quote) is a piece of its own, and  *)
(* a run of other characters may be one piece ("and", "_id").  White space *)
(* between tokens is not represented.                                      *)
(***************************************************************************)
EXTENDS Integers, Sequences, FiniteSets, TLC

VARIABLES
    pc,        \* position of the run: which call is next / in progress
    query,     \* compiler input: the query document (filter)
    sort,      \* compiler input: the sort option
    updateOps, \* compiler input: the update document
    out,       \* last result returned by the compiler / assembler
    softDelete, \* the schema option softDelete of the model
    table,     \* the stored documents: _id -> row (jsonb) or NoRow
    inst,      \* the Document instances the callers hold
    loaded,    \* history: the stored row as each instance last read or wrote it
    now,       \* Date.now()
    call,      \* the last call of a model method and what it did
    tx,        \* the transaction: its position, its statements, its writes
    manager    \* DatabaseManager: its static instance, the Pools made, its callers

cvars == <<pc, query, sort, updateOps, out, manager>>
svars == <<softDelete, table, inst, loaded, now, call, tx, manager>>
vars == <<pc, query, sort, updateOps, out, softDelete, table, inst, loaded, now, call, tx, manager>>

(***************************************************************************)
(* Tokens and text                                                         *)
(***************************************************************************)
Tok(s, u) == [s |-> s, u |-> u]
C(s) == <<Tok(s, "code")>>
Lit(s) == <<Tok(s, "lit")>>
Quote == C("'")
Taint(chars, u) == [i \in DOMAIN chars |-> Tok(chars[i], u)]
TextOf(toks) == [i \in DOMAIN toks |-> toks[i].s]

DigitChars == <<"0", "1", "2", "3", "4", "5", "6", "7", "8", "9">>
DigitSet == {DigitChars[i] : i \in 1..10}
DigitVal(c) == (CHOOSE i \in 1..10 : DigitChars[i] = c) - 1

RECURSIVE Digits(_)
\* String(n) for a non-negative integer, one character per element
Digits(n) == IF n < 10 THEN <<DigitChars[n + 1]>>
             ELSE Digits(n \div 10) \o <<DigitChars[(n % 10) + 1]>>

RECURSIVE parseInt(_)
\* parseInt of a non-empty run of digit characters
parseInt(ds) == IF Len(ds) = 0 THEN 0
                ELSE 10 * parseInt(SubSeq(ds, 1, Len(ds) - 1)) + DigitVal(ds[Len(ds)])

RECURSIVE Concat(_)
Concat(seqs) == IF Len(seqs) = 0 THEN <<>> ELSE Head(seqs) \o Concat(Tail(seqs))

RECURSIVE Join(_, _)
\* Array.prototype.join
Join(seqs, sep) == IF Len(seqs) = 0 THEN <<>>
                   ELSE IF Len(seqs) = 1 THEN seqs[1]
                   ELSE seqs[1] \o sep \o Join(Tail(seqs), sep)

(***************************************************************************)
(* Values of the dynamically typed query language. Every value is a record *)
(* [t, s, n, a]: t the runtime type, s the characters of a string, n the   *)
(* number (a "float" n is in tenths and has a fractional part), a the      *)
(* entries <<[k, v]>> of an object or (with empty keys) of an array.       *)
(***************************************************************************)
Val(t, s, n, a) == [t |-> t, s |-> s, n |-> n, a |-> a]
Null == Val("null", <<>>, 0, <<>>)
Undefined == Val("undef", <<>>, 0, <<>>)
BoolV(b) == Val("bool", <<>>, IF b THEN 1 ELSE 0, <<>>)
IntV(n) == Val("int", <<>>, n, <<>>)
FloatV(n) == Val("float", <<>>, n, <<>>)
StrV(s) == Val("str", s, 0, <<>>)
Entry(k, v) == [k |-> k, v |-> v]
Arr(elems) == Val("arr", <<>>, 0, [i \in DOMAIN elems |-> Entry(<<>>, elems[i])])
Obj(entries) == Val("obj", <<>>, 0, entries)
Elems(v) == [i \in DOMAIN v.a |-> v.a[i].v]
Keys(v) == [i \in DOMAIN v.a |-> v.a[i].k]

\* typeof
typeof(v) == CASE v.t \in {"int", "float"} -> "number"
               [] v.t = "bool" -> "boolean"
               [] v.t = "str" -> "string"
               [] v.t = "undef" -> "undefined"
               [] OTHER -> "object"
isArray(v) == v.t = "arr"
isPlainEmptyObject(v) == v.t = "obj" /\ Len(v.a) = 0

\* operator and reserved key names
kAnd == <<"$", "and">>
kOr == <<"$", "or">>
kNor == <<"$", "nor">>
kNot == <<"$", "not">>
kWhere == <<"$", "where">>
kText == <<"$", "text">>
kEq == <<"$", "eq">>
kNe == <<"$", "ne">>
kGt == <<"$", "gt">>
kGte == <<"$", "gte">>
kLt == <<"$", "lt">>
kLte == <<"$", "lte">>
kIn == <<"$", "in">>
kNin == <<"$", "nin">>
kExists == <<"$", "exists">>
kRegex == <<"$", "regex">>
kOptions == <<"$", "options">>
kMod == <<"$", "mod">>
kSize == <<"$", "size">>
kAll == <<"$", "all">>
kElemMatch == <<"$", "elemMatch">>
kType == <<"$", "type">>
kSearch == <<"$", "search">>
kSet == <<"$", "set">>
kInc == <<"$", "inc">>

startsWithDollar(key) == Len(key) > 0 /\ key[1] = "$"
includesDot(key) == \E i \in DOMAIN key : key[i] = "."

\* value of a key in an object, undefined when absent
Get(obj, key) == IF \E i \in DOMAIN obj.a : obj.a[i].k = key
                 THEN obj.a[CHOOSE i \in DOMAIN obj.a : obj.a[i].k = key].v
                 ELSE Undefined

(***************************************************************************)
(* Literal quoting (mongo-converter.ts)                                    *)
(***************************************************************************)
RECURSIVE doubleQuotes(_, _)
\* value.replace(/'/g, "''"): every character keeps the provenance u
doubleQuotes(chars, u) ==
    IF Len(chars) = 0 THEN <<>>
    ELSE (IF Head(chars) = "'" THEN <<Tok("'", u), Tok("'", u)>>
          ELSE <<Tok(Head(chars), u)>>) \o doubleQuotes(Tail(chars), u)

RECURSIVE jsonEscape(_, _)
\* the body of JSON.stringify of a string: only the double quote and the
\* backslash are escaped, a single quote is copied
jsonEscape(chars, u) ==
    IF Len(chars) = 0 THEN <<>>
    ELSE (IF Head(chars) \in {"\"", "\\"}
          THEN <<Tok("\\", "lit"), Tok(Head(chars), u)>>
          ELSE <<Tok(Head(chars), u)>>) \o jsonEscape(Tail(chars), u)

\* String(n) of a number value
numberString(v) ==
    IF v.t = "int" THEN Taint(Digits(v.n), "num")
    ELSE Taint(Digits(v.n \div 10) \o <<".">> \o Digits(v.n % 10), "num")

RECURSIVE stringify(_)
\* JSON.stringify
stringify(v) ==
    CASE v.t \in {"null", "undef"} -> Lit("null")
      [] v.t = "bool" -> Lit(IF v.n = 1 THEN "true" ELSE "false")
      [] v.t \in {"int", "float"} -> numberString(v)
      [] v.t = "str" -> Lit("\"") \o jsonEscape(v.s, "val") \o Lit("\"")
      [] v.t = "arr" ->
            Lit("[") \o Join([i \in DOMAIN v.a |-> stringify(v.a[i].v)], Lit(",")) \o Lit("]")
      [] OTHER ->
            Lit("{") \o Join([i \in DOMAIN v.a |->
                                Lit("\"") \o jsonEscape(v.a[i].k, "val") \o Lit("\"")
                                \o Lit(":") \o stringify(v.a[i].v)], Lit(",")) \o Lit("}")

\* a sqlValue that doubles no quote
sqlValueNoEscape(value) ==
    CASE value.t \in {"undef", "null"} -> C("NULL")
      [] value.t = "str" -> Quote \o Taint(value.s, "val") \o Quote
      [] value.t \in {"int", "float"} -> numberString(value)
      [] value.t = "bool" -> Taint(<<IF value.n = 1 THEN "true" ELSE "false">>, "num")
      [] OTHER -> Quote \o stringify(value) \o Quote

\* #sqlValue
sqlValue(value) ==
    CASE value.t \in {"undef", "null"} -> C("NULL")
      [] value.t = "str" -> Quote \o doubleQuotes(value.s, "val") \o Quote
      [] value.t \in {"int", "float"} -> numberString(value)
      [] value.t = "bool" -> Taint(<<IF value.n = 1 THEN "true" ELSE "false">>, "num")
      [] OTHER -> Quote \o stringify(value) \o Quote

\* #quoteIdent
quoteIdent(ident) == C("\"") \o Taint(ident, "lit") \o C("\"")

\* #quoteLiteral
quoteLiteral(value) == Quote \o doubleQuotes(value, "path") \o Quote

(***************************************************************************)
(* Parameters. A compile result is [c, p, e]: the clause text, the         *)
(* parameter vector after the call, and whether the call threw.            *)
(***************************************************************************)
Res(c, p, e) == [c |-> c, p |-> p, e |-> e]
TRUE_ == C("TRUE")
FALSE_ == C("FALSE")
Placeholder(n) == C("$") \o Taint(Digits(n), "code")

\* an addParam that returns the index before the push
addParamOffByOne(p, value) == [p |-> Append(p, value), ph |-> Placeholder(Len(p))]

\* #addParam: push, then "$" + params.length
addParam(p, value) == [p |-> Append(p, value), ph |-> Placeholder(Len(p) + 1)]

(***************************************************************************)
(* Field paths                                                             *)
(***************************************************************************)
isNumericIndex(part) == Len(part) > 0 /\ \A i \in DOMAIN part : part[i] \in DigitSet

RECURSIVE split(_, _)
\* String.prototype.split(sep) for a one-character separator
split(chars, sep) ==
    IF \A i \in DOMAIN chars : chars[i] # sep THEN <<chars>>
    ELSE LET i == CHOOSE j \in DOMAIN chars :
                      chars[j] = sep /\ \A k \in 1..(j - 1) : chars[k] # sep
         IN <<SubSeq(chars, 1, i - 1)>> \o split(SubSeq(chars, i + 1, Len(chars)), sep)

\* a pathStep that never quotes
pathStepUnquoted(part) == C("->") \o Taint(part, "idx")

\* one "->part" step of a container path: a numeric part unquoted, any
\* other part between quotes, as it is
pathStep(part) ==
    IF isNumericIndex(part) THEN C("->") \o Taint(part, "idx")
    ELSE C("->") \o Quote \o Taint(part, "path") \o Quote

\* whether text[j..] is "->" followed by '[^']+' or by \d+, to the end
suffixMatches(text, j) ==
    LET n == Len(text) IN
    /\ text[j] = "->"
    /\ \/ /\ n - j >= 3
          /\ text[j + 1] = "'"
          /\ text[n] = "'"
          /\ \A k \in (j + 2)..(n - 1) : text[k] # "'"
       \/ /\ n - j >= 1
          /\ \A k \in (j + 1)..n : text[k] \in DigitSet

\* currentJsonPath.match(/^(.*)(->'[^']+'|->\d+)$/): group 1, or the
\* fallback when there is no match
basePathOf(currentJsonPath, fallback) ==
    LET text == TextOf(currentJsonPath)
        J == {j \in DOMAIN text : suffixMatches(text, j)}
    IN IF J = {} THEN fallback
       ELSE SubSeq(currentJsonPath, 1, (CHOOSE j \in J : \A k \in J : k <= j) - 1)

RECURSIVE containerPath(_, _)
\* the loop of lines 172-177: root, then one step per part
containerPath(root, parts) ==
    IF Len(parts) = 0 THEN root
    ELSE containerPath(root \o pathStep(Head(parts)), Tail(parts))

\* the text-extraction step for the last part (lines 181-182)
accessStep(part) ==
    IF isNumericIndex(part) THEN C("->>") \o Taint(part, "idx")
    ELSE C("->>") \o Quote \o Taint(part, "path") \o Quote

\* lines 168-184 and 194-195 of #processQueryObject: [json, access]
dottedPaths(json, root, parts) ==
    [json |-> json, access |-> basePathOf(json, root) \o accessStep(parts[Len(parts)])]

pathsFrom(key, root) ==
    IF includesDot(key)
    THEN dottedPaths(containerPath(root, split(key, ".")), root, split(key, "."))
    ELSE [json |-> root \o C("->") \o Quote \o Taint(key, "path") \o Quote,
          access |-> root \o C("->>") \o Quote \o Taint(key, "path") \o Quote]

fieldPaths(key, jsonField, parentPath) ==
    pathsFrom(key, IF Len(parentPath) > 0 THEN parentPath ELSE jsonField)


(***************************************************************************)
(* The query walker (mongo-converter.ts)                                   *)
(***************************************************************************)
isLogicalOperator(key) == key \in {kAnd, kOr, kNor, kNot}

\* #isOperatorObject
isOperatorObject(value) ==
    value.t = "obj" /\ \E i \in DOMAIN value.a : startsWithDollar(value.a[i].k)

nullCheck(jsonPath) ==
    C("(") \o jsonPath \o C("IS NULL") \o C("OR") \o jsonPath \o C("=")
    \o Quote \o Lit("null") \o Quote \o C("::jsonb") \o C(")")

notNullCheckBare(jsonPath) ==
    jsonPath \o C("IS NOT NULL") \o C("AND") \o jsonPath \o C("!=")
    \o Quote \o Lit("null") \o Quote \o C("::jsonb")

castOf(accessPath, type) == C("(") \o accessPath \o C(")") \o C("::" \o type)

\* #createEqualityCondition
createEqualityCondition(accessPath, jsonPath, value, p) ==
    IF value.t = "null" THEN Res(nullCheck(jsonPath), p, FALSE)
    ELSE IF isPlainEmptyObject(value)
    THEN Res(jsonPath \o C("::jsonb") \o C("=") \o Quote \o Lit("{}") \o Quote \o C("::jsonb"),
             p, FALSE)
    ELSE LET a == addParam(p, value) IN
         IF isArray(value)
         THEN Res(jsonPath \o C("::jsonb") \o C("=") \o a.ph \o C("::jsonb"), a.p, FALSE)
         ELSE IF value.t = "bool"
         THEN Res(castOf(accessPath, "boolean") \o C("=") \o a.ph, a.p, FALSE)
         ELSE IF typeof(value) = "number"
         THEN Res(castOf(accessPath, IF value.t = "int" THEN "integer" ELSE "numeric")
                  \o C("=") \o a.ph, a.p, FALSE)
         ELSE Res(accessPath \o C("=") \o a.ph, a.p, FALSE)

\* case '$ne' of #handleComparisonOperator
neCondition(operand, accessPath, jsonPath, p) ==
    IF operand.t = "undef" THEN Res(jsonPath \o C("IS NOT NULL"), p, FALSE)
    ELSE IF operand.t = "null"
    THEN Res(C("(") \o notNullCheckBare(jsonPath) \o C(")"), p, FALSE)
    ELSE IF isPlainEmptyObject(operand)
    THEN Res(jsonPath \o C("::jsonb") \o C("!=") \o Quote \o Lit("{}") \o Quote \o C("::jsonb"),
             p, FALSE)
    ELSE LET a == addParam(p, operand) IN
         IF operand.t = "bool"
         THEN Res(castOf(accessPath, "boolean") \o C("IS DISTINCT FROM") \o a.ph, a.p, FALSE)
         ELSE IF isArray(operand)
         THEN Res(jsonPath \o C("::jsonb") \o C("!=") \o a.ph \o C("::jsonb"), a.p, FALSE)
         ELSE IF typeof(operand) = "number"
         THEN Res(castOf(accessPath, IF operand.t = "int" THEN "integer" ELSE "numeric")
                  \o C("IS DISTINCT FROM") \o a.ph, a.p, FALSE)
         ELSE Res(accessPath \o C("IS DISTINCT FROM") \o a.ph, a.p, FALSE)

\* cases '$gt', '$gte', '$lt', '$lte': the operand is inlined by sqlValue
orderCondition(sqlOp, operand, accessPath) ==
    IF typeof(operand) = "number"
    THEN castOf(accessPath, "numeric") \o C(sqlOp) \o sqlValue(operand)
    ELSE accessPath \o C(sqlOp) \o sqlValue(operand)

\* the elements of seq that satisfy Test, in order
Filter(seq, Test(_)) == SelectSeq(seq, Test)

isNonNull(v) == v.t # "null"
\* String(val).includes('.')
hasDecimalPoint(v) == \E i \in DOMAIN numberString(v) : numberString(v)[i].s = "."

\* a grouping by typeof alone: every number in the group 'number'
inGroupOfTypeof(v) ==
    CASE v.t \in {"int", "float"} -> "number"
      [] v.t = "bool" -> "boolean"
      [] v.t = "str" -> "string"
      [] v.t = "undef" -> "none"
      [] OTHER -> "object"

\* lines 356-368: the group of a non-null element
inGroupOf(v) ==
    CASE v.t \in {"int", "float"} -> IF hasDecimalPoint(v) THEN "number" ELSE "integer"
      [] v.t = "bool" -> "boolean"
      [] v.t = "str" -> "string"
      [] v.t = "undef" -> "none"
      [] OTHER -> "object"
isInteger(v) == v.t = "int"
isInGroupNumber(v) == inGroupOf(v) = "number"
isInGroupBoolean(v) == inGroupOf(v) = "boolean"
isInGroupString(v) == inGroupOf(v) = "string"
isInGroupObject(v) == inGroupOf(v) = "object"
isInGroupInteger(v) == inGroupOf(v) = "integer"

\* lines 371-375: the condition of one group
inGroupCondition(g, ph, accessPath, jsonPath) ==
    IF g = "string" THEN accessPath \o C("=") \o C("ANY(") \o ph \o C(")")
    ELSE IF g = "object"
    THEN jsonPath \o C("::jsonb") \o C("=") \o C("ANY(") \o ph \o C("::jsonb[]") \o C(")")
    ELSE castOf(accessPath, IF g = "number" THEN "numeric" ELSE g)
         \o C("=") \o C("ANY(") \o ph \o C(")")

RECURSIVE inGroups(_, _, _, _, _)
\* one group done: its condition is pushed, a is what #addParam returned
inGroupsPush(gs, i, accessPath, jsonPath, st, a) ==
    inGroups(gs, i + 1, accessPath, jsonPath,
             [conds |-> Append(st.conds,
                               inGroupCondition(gs[i].g, a.ph, accessPath, jsonPath)),
              p |-> a.p])

\* lines 371-375: one condition and one parameter per non-empty group, in the
\* order integer, number, boolean, string, object
inGroups(gs, i, accessPath, jsonPath, st) ==
    IF i > Len(gs) THEN st
    ELSE IF Len(gs[i].vals) = 0 THEN inGroups(gs, i + 1, accessPath, jsonPath, st)
    ELSE inGroupsPush(gs, i, accessPath, jsonPath, st, addParam(st.p, Arr(gs[i].vals)))

\* conditions.join(joiner), between parentheses when there are several
joinConditions(conds, joiner) ==
    IF Len(conds) > 1 THEN C("(") \o Join(conds, C(joiner)) \o C(")")
    ELSE Join(conds, C(joiner))

\* lines 380-388: the result of '$in' from the joined non-null condition
inResult(nonNullCondition, hasNull, jsonPath, p) ==
    IF hasNull
    THEN Res(IF Len(nonNullCondition) > 0
             THEN C("(") \o C("(") \o nonNullCondition \o C(")") \o C("OR")
                  \o nullCheck(jsonPath) \o C(")")
             ELSE nullCheck(jsonPath), p, FALSE)
    ELSE Res(IF Len(nonNullCondition) > 0 THEN nonNullCondition ELSE FALSE_, p, FALSE)

inGrouped(st, hasNull, jsonPath) ==
    inResult(joinConditions(st.conds, "OR"), hasNull, jsonPath, st.p)

\* lines 350-388, for the non-null elements of the operand
inNonNull(nonNull, hasNull, accessPath, jsonPath, p) ==
    IF Len(nonNull) = 0
    THEN Res(IF hasNull THEN nullCheck(jsonPath) ELSE FALSE_, p, FALSE)
    ELSE inGrouped(inGroups(<< [g |-> "integer", vals |-> Filter(nonNull, isInGroupInteger)],
                               [g |-> "number", vals |-> Filter(nonNull, isInGroupNumber)],
                               [g |-> "boolean", vals |-> Filter(nonNull, isInGroupBoolean)],
                               [g |-> "string", vals |-> Filter(nonNull, isInGroupString)],
                               [g |-> "object", vals |-> Filter(nonNull, isInGroupObject)] >>,
                            1, accessPath, jsonPath, [conds |-> <<>>, p |-> p]),
                   hasNull, jsonPath)

\* case '$in'
inCondition(operand, accessPath, jsonPath, p) ==
    IF ~isArray(operand) \/ Len(operand.a) = 0 THEN Res(FALSE_, p, FALSE)
    ELSE inNonNull(Filter(Elems(operand), isNonNull),
                   \E i \in DOMAIN operand.a : operand.a[i].v.t = "null",
                   accessPath, jsonPath, p)

RECURSIVE typesInOrder(_, _)
\* the keys of the groups object of '$nin' in insertion order: the typeof of
\* the elements by first occurrence
typesInOrder(els, seen) ==
    IF Len(els) = 0 THEN seen
    ELSE typesInOrder(Tail(els),
                      IF \E i \in DOMAIN seen : seen[i] = typeof(Head(els)) THEN seen
                      ELSE Append(seen, typeof(Head(els))))

\* lines 408-417: the condition of one group
ninGroupCondition(type, values, ph, accessPath, jsonPath) ==
    IF type = "number"
    THEN castOf(accessPath,
                IF \E k \in DOMAIN values : ~isInteger(values[k])
                THEN "numeric" ELSE "integer")
         \o C("!=") \o C("ALL(") \o ph \o C(")")
    ELSE IF type = "boolean"
    THEN castOf(accessPath, "boolean") \o C("!=") \o C("ALL(") \o ph \o C(")")
    ELSE IF type = "object"
    THEN jsonPath \o C("::jsonb") \o C("<>") \o C("ALL(") \o ph \o C("::jsonb[]") \o C(")")
    ELSE accessPath \o C("!=") \o C("ALL(") \o ph \o C(")")

RECURSIVE ninGroups(_, _, _, _, _, _)
ninGroupsPush(types, i, nonNull, accessPath, jsonPath, st, values, a) ==
    ninGroups(types, i + 1, nonNull, accessPath, jsonPath,
              [conds |-> Append(st.conds,
                                ninGroupCondition(types[i], values, a.ph, accessPath,
                                                  jsonPath)),
               p |-> a.p])

ninGroupsAt(types, i, nonNull, accessPath, jsonPath, st, values) ==
    ninGroupsPush(types, i, nonNull, accessPath, jsonPath, st, values,
                  addParam(st.p, Arr(values)))

\* lines 405-419: one condition and one parameter per typeof group
ninGroups(types, i, nonNull, accessPath, jsonPath, st) ==
    IF i > Len(types) THEN st
    ELSE ninGroupsAt(types, i, nonNull, accessPath, jsonPath, st,
                     SelectSeq(nonNull, LAMBDA v : typeof(v) = types[i]))

\* lines 420-428: the result of '$nin' from its conditions
ninResult(nonNullCondition, hasNull, jsonPath, p) ==
    IF hasNull
    THEN Res(C("(") \o nonNullCondition \o C("AND") \o C("(")
             \o notNullCheckBare(jsonPath) \o C(")") \o C(")"), p, FALSE)
    ELSE Res(nonNullCondition, p, FALSE)

ninGrouped(st, hasNull, jsonPath) ==
    ninResult(joinConditions(st.conds, "AND"), hasNull, jsonPath, st.p)

ninNonNull(nonNull, hasNull, accessPath, jsonPath, p) ==
    IF Len(nonNull) = 0
    THEN Res(IF hasNull THEN C("(") \o notNullCheckBare(jsonPath) \o C(")") ELSE TRUE_,
             p, FALSE)
    ELSE ninGrouped(ninGroups(typesInOrder(nonNull, <<>>), 1, nonNull, accessPath,
                              jsonPath, [conds |-> <<>>, p |-> p]),
                    hasNull, jsonPath)

\* case '$nin'
ninCondition(operand, accessPath, jsonPath, p) ==
    IF ~isArray(operand) \/ Len(operand.a) = 0 THEN Res(TRUE_, p, FALSE)
    ELSE ninNonNull(Filter(Elems(operand), isNonNull),
                    \E i \in DOMAIN operand.a : operand.a[i].v.t = "null",
                    accessPath, jsonPath, p)


FlagChars == {"g", "i", "m", "y", "u", "s"}

\* operand.match(/^\/(.+)\/([gimyus]*)$/) for a string that starts with "/"
\* and has a later "/": [ok, pattern, flags]
slashRegex(chars) ==
    LET n == Len(chars)
        J == {j \in 3..n : /\ chars[j] = "/"
                           /\ \A k \in (j + 1)..n : chars[k] \in FlagChars}
    IN IF J = {} THEN [ok |-> FALSE, pattern |-> <<>>, flags |-> <<>>]
       ELSE LET j == CHOOSE x \in J : \A y \in J : y <= x
            IN [ok |-> TRUE, pattern |-> SubSeq(chars, 2, j - 1),
                flags |-> SubSeq(chars, j + 1, n)]

\* case '$regex'
regexCondition(operand, accessPath, regexOptions) ==
    LET isPair == /\ isArray(operand) /\ Len(operand.a) = 2
                  /\ operand.a[1].v.t = "str" /\ operand.a[2].v.t = "str"
        isSlash == /\ operand.t = "str" /\ Len(operand.s) > 0 /\ operand.s[1] = "/"
                   /\ \E i \in 2..Len(operand.s) : operand.s[i] = "/"
        m == slashRegex(operand.s)
        pattern == IF isPair THEN operand.a[1].v
                   ELSE IF isSlash /\ m.ok THEN StrV(m.pattern)
                   ELSE operand
        flags == IF isPair THEN operand.a[2].v.s
                 ELSE IF isSlash /\ m.ok THEN m.flags
                 ELSE regexOptions
        op == IF \E i \in DOMAIN flags : flags[i] = "i" THEN "~*" ELSE "~"
    IN accessPath \o C(op) \o sqlValue(pattern)

TypeNames == {"string", "number", "boolean", "array", "object", "null"}

RECURSIVE processQueryObject(_, _, _, _)
RECURSIVE pqoLoop(_, _, _, _, _)
RECURSIVE processFieldOperators(_, _, _, _)
RECURSIVE pfoLoop(_, _, _, _, _)
RECURSIVE handleComparisonOperator(_, _, _, _, _, _)
RECURSIVE handleLogicalOperator(_, _, _, _, _)
RECURSIVE handleNotOperator(_, _, _, _)
RECURSIVE mapSubQueries(_, _, _, _, _)

\* lines 497-508: the result of '$elemMatch' from the inner condition
elemMatchResult(inner, jsonPath, alias, func) ==
    IF inner.e THEN inner
    ELSE IF Len(inner.c) = 0 \/ inner.c = TRUE_
    THEN Res(C("(") \o jsonPath \o C("IS NOT NULL") \o C("AND")
             \o C("jsonb_typeof(") \o jsonPath \o C(")") \o C("=")
             \o Quote \o Lit("array") \o Quote \o C("AND")
             \o C("jsonb_array_length(") \o jsonPath \o C(")") \o C(">")
             \o C("0") \o C(")"), inner.p, FALSE)
    ELSE Res(C("EXISTS") \o C("(") \o C("SELECT 1 FROM") \o C(func \o "(") \o jsonPath
             \o C(")") \o C("as") \o alias \o C("WHERE") \o inner.c \o C(")"),
             inner.p, FALSE)

\* lines 481-496: the inner condition over the element alias
elemMatchInner(operand, isPrimitiveMatch, p) ==
    IF isPrimitiveMatch
    THEN IF Len(operand.a) = 0 THEN Res(<<>>, p, FALSE)
         ELSE handleComparisonOperator(operand.a[1].k, operand.a[1].v,
                                       C("elem_val") \o C(".value"), C("null"), <<>>, p)
    ELSE processQueryObject(operand.a, C("elem"), <<>>, p)

elemMatchOf(operand, jsonPath, isPrimitiveMatch, p) ==
    elemMatchResult(elemMatchInner(operand, isPrimitiveMatch, p), jsonPath,
                    IF isPrimitiveMatch THEN C("elem_val") ELSE C("elem"),
                    IF isPrimitiveMatch THEN "jsonb_array_elements_text"
                    ELSE "jsonb_array_elements")

\* case '$elemMatch'
elemMatchCondition(operand, jsonPath, p) ==
    \* (an array operand, whose keys are its indices, is not modelled)
    IF operand.t # "obj" THEN Res(FALSE_, p, FALSE)
    ELSE elemMatchOf(operand, jsonPath,
                     /\ \A i \in DOMAIN operand.a : startsWithDollar(operand.a[i].k)
                     /\ ~\E i \in DOMAIN operand.a : isLogicalOperator(operand.a[i].k),
                     p)

\* #handleComparisonOperator
handleComparisonOperator(operator, operand, accessPath, jsonPath, regexOptions, p) ==
    CASE operator = kEq ->
            IF operand.t = "undef" THEN Res(jsonPath \o C("IS NULL"), p, FALSE)
            ELSE createEqualityCondition(accessPath, jsonPath, operand, p)
      [] operator = kNe -> neCondition(operand, accessPath, jsonPath, p)
      [] operator \in {kGt, kGte, kLt, kLte} ->
            Res(orderCondition(CASE operator = kGt -> ">" [] operator = kGte -> ">="
                                 [] operator = kLt -> "<" [] OTHER -> "<=",
                               operand, accessPath), p, FALSE)
      [] operator = kIn -> inCondition(operand, accessPath, jsonPath, p)
      [] operator = kNin -> ninCondition(operand, accessPath, jsonPath, p)
      [] operator = kExists ->
            \* truthiness of the operand
            Res(jsonPath \o C(IF \/ operand.t \in {"null", "undef"}
                                 \/ (operand.t \in {"bool", "int", "float"} /\ operand.n = 0)
                                 \/ (operand.t = "str" /\ Len(operand.s) = 0)
                              THEN "IS NULL" ELSE "IS NOT NULL"), p, FALSE)
      [] operator = kRegex -> Res(regexCondition(operand, accessPath, regexOptions), p, FALSE)
      [] operator = kMod ->
            IF /\ isArray(operand) /\ Len(operand.a) = 2
               /\ typeof(operand.a[1].v) = "number" /\ typeof(operand.a[2].v) = "number"
            THEN Res(castOf(accessPath, "numeric") \o C("%") \o sqlValue(operand.a[1].v)
                     \o C("=") \o sqlValue(operand.a[2].v), p, FALSE)
            ELSE Res(FALSE_, p, FALSE)
      [] operator = kSize ->
            IF operand.t # "int" THEN Res(FALSE_, p, FALSE)
            ELSE Res(C("(") \o C("jsonb_typeof(") \o jsonPath \o C(")") \o C("=")
                     \o Quote \o Lit("array") \o Quote \o C("AND")
                     \o C("jsonb_array_length(") \o jsonPath \o C(")") \o C("=")
                     \o numberString(operand) \o C(")"), p, FALSE)
      [] operator = kAll ->
            IF ~isArray(operand) THEN Res(FALSE_, p, FALSE)
            ELSE IF Len(operand.a) = 0 THEN Res(TRUE_, p, FALSE)
            ELSE Res(jsonPath \o C("@>") \o sqlValue(operand) \o C("::jsonb"), p, FALSE)
      [] operator = kElemMatch -> elemMatchCondition(operand, jsonPath, p)
      [] operator = kType ->
            IF operand.t = "str" /\ Len(operand.s) = 1 /\ operand.s[1] \in TypeNames
            THEN Res(C("jsonb_typeof(") \o jsonPath \o C(")") \o C("=")
                     \o sqlValue(operand), p, FALSE)
            ELSE Res(FALSE_, p, FALSE)
      [] OTHER -> Res(<<>>, p, FALSE)

\* lines 612-616 (and 575-577): the negation of an inner condition
negated(inner) ==
    IF inner.e THEN inner
    ELSE IF Len(inner.c) = 0 \/ inner.c = TRUE_ THEN Res(FALSE_, inner.p, FALSE)
    ELSE IF inner.c = FALSE_ THEN Res(TRUE_, inner.p, FALSE)
    ELSE Res(C("NOT") \o C("(") \o inner.c \o C(")"), inner.p, FALSE)

\* #handleNotOperator
handleNotOperator(operand, accessPath, jsonPath, p) ==
    IF operand.t # "obj" THEN Res(FALSE_, p, FALSE)
    ELSE negated(processFieldOperators(operand, accessPath, jsonPath, p))

\* lines 250-258: the condition r of operator i is pushed; st = [fc, t, p, e]
pfoPush(operators, i, accessPath, jsonPath, st, r) ==
    pfoLoop(operators, i + 1, accessPath, jsonPath,
            [fc |-> IF Len(r.c) = 0 \/ (operators.a[i].k # kNot /\ r.c = TRUE_) THEN st.fc
                    ELSE Append(st.fc, r.c),
             t |-> st.t \/ (operators.a[i].k # kNot /\ r.c = TRUE_),
             p |-> r.p,
             e |-> r.e])

\* the regexOptions handed to the operators: operators.$options
optionsOf(operators) ==
    IF \E i \in DOMAIN operators.a : operators.a[i].k = kOptions /\ operators.a[i].v.t = "str"
    THEN Get(operators, kOptions).s ELSE <<>>

\* the loop of #processFieldOperators
pfoLoop(operators, i, accessPath, jsonPath, st) ==
    IF i > Len(operators.a) \/ st.e THEN st
    ELSE pfoPush(operators, i, accessPath, jsonPath, st,
                 IF operators.a[i].k = kNot
                 THEN handleNotOperator(operators.a[i].v, accessPath, jsonPath, st.p)
                 ELSE handleComparisonOperator(operators.a[i].k, operators.a[i].v,
                                               accessPath, jsonPath, optionsOf(operators),
                                               st.p))

\* lines 260-266: the result of #processFieldOperators
pfoResult(st) ==
    IF st.e THEN Res(<<>>, st.p, TRUE)
    ELSE IF st.t /\ Len(st.fc) = 0 THEN Res(TRUE_, st.p, FALSE)
    ELSE Res(Join(st.fc, C("AND")), st.p, FALSE)

\* #processFieldOperators
processFieldOperators(operators, accessPath, jsonPath, p) ==
    pfoResult(pfoLoop(operators, 1, accessPath, jsonPath,
                      [fc |-> <<>>, t |-> FALSE, p |-> p, e |-> FALSE]))

mapPush(operands, i, jsonField, parentPath, st, r) ==
    mapSubQueries(operands, i + 1, jsonField, parentPath,
                  [cs |-> Append(st.cs, r.c), p |-> r.p, e |-> r.e])

\* operands.map(subQuery => processQueryObject(...)) of lines 552 and 589;
\* st = [cs, p, e]
mapSubQueries(operands, i, jsonField, parentPath, st) ==
    IF i > Len(operands) \/ st.e THEN st
    ELSE mapPush(operands, i, jsonField, parentPath, st,
                 processQueryObject(operands[i].a, jsonField, parentPath, st.p))

isKept(c) == Len(c) > 0 /\ c # TRUE_

\* an '$and'/'$or' case that joins without parentheses
joinLogicalBare(clauses, joiner) == Join(clauses, C(joiner))

\* lines 560-562: join and wrap
joinLogical(clauses, joiner) == C("(") \o Join(clauses, C(joiner)) \o C(")")

\* lines 555-562: the result of '$and' / '$or' from the kept clauses
andOrJoined(operator, clauses, p) ==
    IF Len(clauses) = 0 THEN Res(IF operator = kAnd THEN TRUE_ ELSE FALSE_, p, FALSE)
    ELSE IF Len(clauses) = 1 THEN Res(clauses[1], p, FALSE)
    ELSE Res(joinLogical(clauses, IF operator = kAnd THEN "AND" ELSE "OR"), p, FALSE)

andOrResult(operator, m) ==
    IF m.e THEN Res(<<>>, m.p, TRUE)
    ELSE andOrJoined(operator, Filter(m.cs, isKept), m.p)

\* lines 592-595: the result of '$nor' from the kept clauses
norJoined(clauses, p) ==
    IF Len(clauses) = 0 THEN Res(FALSE_, p, FALSE)
    ELSE Res(C("NOT") \o C("(")
             \o (IF Len(clauses) = 1 THEN clauses[1]
                 ELSE C("(") \o Join(clauses, C("OR")) \o C(")"))
             \o C(")"), p, FALSE)

norResult(m) ==
    IF m.e THEN Res(<<>>, m.p, TRUE)
    ELSE norJoined(Filter(m.cs, isKept), m.p)

\* lines 570-574: the inner condition of a top-level '$not'
notInner(operands, jsonField, parentPath, p) ==
    IF /\ Len(operands.a) > 0
       /\ \A i \in DOMAIN operands.a : startsWithDollar(operands.a[i].k)
       /\ ~isLogicalOperator(operands.a[1].k)
    THEN processFieldOperators(operands, C("dummy_access"), C("dummy_json"), p)
    ELSE processQueryObject(operands.a, jsonField, parentPath, p)

\* #handleLogicalOperator
handleLogicalOperator(operator, operands, jsonField, parentPath, p) ==
    CASE operator \in {kAnd, kOr} ->
            IF ~isArray(operands) \/ Len(operands.a) = 0
            THEN Res(IF operator = kAnd THEN TRUE_ ELSE FALSE_, p, FALSE)
            ELSE andOrResult(operator,
                             mapSubQueries(Elems(operands), 1, jsonField, parentPath,
                                           [cs |-> <<>>, p |-> p, e |-> FALSE]))
      [] operator = kNot ->
            IF operands.t # "obj" THEN Res(FALSE_, p, FALSE)
            ELSE negated(notInner(operands, jsonField, parentPath, p))
      [] operator = kNor ->
            IF ~isArray(operands) \/ Len(operands.a) = 0 THEN Res(TRUE_, p, FALSE)
            ELSE norResult(mapSubQueries(Elems(operands), 1, jsonField, parentPath,
                                         [cs |-> <<>>, p |-> p, e |-> FALSE]))
      [] OTHER -> Res(<<>>, p, FALSE)

\* lines 143-160: the clause r of a logical key is taken in;
\* st = [clauses, t (isTrueResult), ret (returned 'FALSE' early), p, e]
pqoLogical(q, i, jsonField, parentPath, st, r) ==
    IF r.e THEN [st EXCEPT !.e = TRUE, !.p = r.p]
    ELSE IF r.c = TRUE_
    THEN pqoLoop(q, i + 1, jsonField, parentPath, [st EXCEPT !.t = TRUE, !.p = r.p])
    ELSE IF r.c = FALSE_ THEN [st EXCEPT !.ret = TRUE, !.p = r.p]
    ELSE pqoLoop(q, i + 1, jsonField, parentPath,
                 [st EXCEPT !.clauses = IF Len(r.c) > 0 THEN Append(@, r.c) ELSE @,
                            !.p = r.p])

\* lines 198-217: the clause r of a field key is taken in
pqoFieldPush(q, i, jsonField, parentPath, st, r) ==
    pqoLoop(q, i + 1, jsonField, parentPath,
            [clauses |-> IF Len(r.c) > 0 /\ r.c # TRUE_
                         THEN Append(st.clauses,
                                     IF /\ isOperatorObject(q[i].v)
                                        /\ Len(Filter(Keys(q[i].v), LAMBDA k : k # kOptions)) > 1
                                     THEN C("(") \o r.c \o C(")") ELSE r.c)
                         ELSE st.clauses,
             t |-> st.t \/ (isOperatorObject(q[i].v) /\ r.c = TRUE_),
             ret |-> FALSE,
             p |-> r.p,
             e |-> r.e])

\* lines 162-217: a field key, with the paths built for it
pqoField(q, i, jsonField, parentPath, st, paths) ==
    pqoFieldPush(q, i, jsonField, parentPath, st,
                 IF isOperatorObject(q[i].v)
                 THEN processFieldOperators(q[i].v, paths.access, paths.json, st.p)
                 ELSE createEqualityCondition(paths.access, paths.json, q[i].v, st.p))

\* the loop of #processQueryObject (lines 134-223)
pqoLoop(q, i, jsonField, parentPath, st) ==
    IF i > Len(q) \/ st.e \/ st.ret THEN st
    ELSE IF q[i].k = kWhere THEN [st EXCEPT !.e = TRUE]
    ELSE IF q[i].k = kText
    THEN pqoLoop(q, i + 1, jsonField, parentPath, [st EXCEPT !.t = TRUE])
    ELSE IF isLogicalOperator(q[i].k)
    THEN pqoLogical(q, i, jsonField, parentPath, st,
                    handleLogicalOperator(q[i].k, q[i].v,
                                          IF Len(parentPath) > 0 THEN parentPath
                                          ELSE jsonField,
                                          parentPath, st.p))
    ELSE IF ~startsWithDollar(q[i].k)
    THEN pqoField(q, i, jsonField, parentPath, st,
                  fieldPaths(q[i].k, jsonField, parentPath))
    ELSE pqoLoop(q, i + 1, jsonField, parentPath, st)

\* a join that forgets that a clause was TRUE
pqoJoinedBare(validClauses, st) == Res(Join(validClauses, C("AND")), st.p, FALSE)

\* lines 225-236: the result of #processQueryObject from the clauses
pqoJoined(validClauses, st) ==
    IF Len(validClauses) = 0 THEN Res(IF st.t THEN TRUE_ ELSE <<>>, st.p, FALSE)
    ELSE Res(Join(validClauses, C("AND")), st.p, FALSE)

pqoResult(st) ==
    IF st.e THEN Res(<<>>, st.p, TRUE)
    ELSE IF st.ret THEN Res(FALSE_, st.p, FALSE)
    ELSE IF \E i \in DOMAIN st.clauses : st.clauses[i] = FALSE_
    THEN Res(FALSE_, st.p, FALSE)
    ELSE pqoJoined(Filter(st.clauses, isKept), st)

\* #processQueryObject
processQueryObject(q, jsonField, parentPath, p) ==
    pqoResult(pqoLoop(q, 1, jsonField, parentPath,
                      [clauses |-> <<>>, t |-> FALSE, ret |-> FALSE, p |-> p, e |-> FALSE]))

\* #buildWhereClause
buildWhereClause(q, jsonField, p) ==
    IF Len(q) = 0 THEN Res(<<>>, p, FALSE)
    ELSE processQueryObject(q, jsonField, <<>>, p)

JsonField == C("data")

\* lines 66-68: the clause gets its prefix
whereResult(r) ==
    [sql |-> IF Len(r.c) > 0 THEN C("WHERE") \o r.c ELSE <<>>,
     params |-> r.p, threw |-> r.e]

\* buildWhereClauseAndParams: #params is reset
buildWhereClauseAndParams(q) == whereResult(buildWhereClause(q, JsonField, <<>>))


(***************************************************************************)
(* SELECT assembly and ORDER BY (mongo-converter.ts)                       *)
(***************************************************************************)
\* the access path of one sort key (lines 656-684)
sortAccessPath(key, jsonField) ==
    IF includesDot(key)
    THEN dottedPaths(containerPath(jsonField, split(key, ".")), jsonField,
                     split(key, ".")).access
    ELSE jsonField \o C("->>") \o Quote \o Taint(key, "path") \o Quote

\* #buildSortClause; sortSpec is a sequence of [k, v] with v = 1 or -1
buildSortClause(sortSpec, jsonField) ==
    IF Len(sortSpec) = 0 THEN <<>>
    ELSE C("ORDER BY")
         \o Join([i \in DOMAIN sortSpec |->
                     sortAccessPath(sortSpec[i].k, jsonField)
                     \o C(IF sortSpec[i].v = 1 THEN "ASC" ELSE "DESC")], C(","))

Collection == <<"T">>

\* buildSelectQueryAndParams (limit and offset are inlined numbers, 0 = absent)
selectResult(collection, r, sortSpec, limit, offset) ==
    [sql |-> C("SELECT") \o quoteIdent(<<"data">>) \o C("FROM") \o quoteIdent(collection)
             \o (IF r.c = TRUE_ THEN C("WHERE") \o TRUE_
                 ELSE IF Len(r.c) > 0 THEN C("WHERE") \o r.c
                 ELSE <<>>)
             \o buildSortClause(sortSpec, JsonField)
             \o (IF limit > 0 THEN C("LIMIT") \o Taint(Digits(limit), "num") ELSE <<>>)
             \o (IF offset > 0 THEN C("OFFSET") \o Taint(Digits(offset), "num") ELSE <<>>),
     params |-> r.p, threw |-> r.e]

buildSelectQueryAndParams(collection, q, sortSpec, limit, offset) ==
    selectResult(collection, buildWhereClause(q, JsonField, <<>>), sortSpec, limit, offset)

(***************************************************************************)
(* The update expression, the renumber pass and the UPDATE statement       *)
(***************************************************************************)
\* #buildJsonbPath: '{' segments '}' with each segment JSON.stringify-ed
buildJsonbPath(fieldPath) ==
    LET parts == split(fieldPath, ".") IN
    Quote \o Lit("{") \o Quote
    \o Join([i \in DOMAIN parts |-> Lit("\"") \o jsonEscape(parts[i], "path") \o Lit("\"")],
            Lit(","))
    \o Quote \o Lit("}") \o Quote

RECURSIVE incAccessPath(_, _)
\* lines 103-108: every part appended as ->'part' with its quotes doubled
incAccessPath(cur, parts) ==
    IF Len(parts) = 0 THEN cur
    ELSE incAccessPath(cur \o C("->") \o quoteLiteral(Head(parts)), Tail(parts))

RECURSIVE setLoop(_, _, _)
\* lines 88-92: one '$set' field, its parameter a added
setPush(ops, i, st, a) ==
    setLoop(ops, i + 1,
            [expr |-> C("jsonb_set_lax(") \o st.expr \o C("::jsonb") \o C(",")
                      \o buildJsonbPath(ops[i].k) \o C(",") \o a.ph \o C("::jsonb")
                      \o C(",") \o C("true") \o C(")"),
             p |-> a.p, applied |-> st.applied + 1])

\* the inner loop of '$set'; st = [expr, p, applied]
setLoop(ops, i, st) ==
    IF i > Len(ops) THEN st
    ELSE setPush(ops, i, st,
                 addParam(st.p, Val("json", TextOf(stringify(ops[i].v)), 0, <<>>)))

RECURSIVE incLoop(_, _, _)
\* lines 100-113: one '$inc' field, its parameter a added
incPush(ops, i, st, a) ==
    incLoop(ops, i + 1,
            [expr |-> C("jsonb_set_lax(") \o st.expr \o C("::jsonb") \o C(",")
                      \o buildJsonbPath(ops[i].k) \o C(",")
                      \o C("to_jsonb(") \o C("COALESCE(") \o C("(")
                      \o incAccessPath(quoteIdent(<<"data">>), split(ops[i].k, "."))
                      \o C(")") \o C("::numeric") \o C(",") \o C("0") \o C(")")
                      \o C("+") \o a.ph \o C("::numeric") \o C(")")
                      \o C(",") \o C("true") \o C(")"),
             p |-> a.p, applied |-> st.applied + 1])

\* the inner loop of '$inc'
incLoop(ops, i, st) ==
    IF i > Len(ops) THEN st
    ELSE IF typeof(ops[i].v) # "number" THEN incLoop(ops, i + 1, st)
    ELSE incPush(ops, i, st, addParam(st.p, ops[i].v))

RECURSIVE updateLoop(_, _, _)
\* the outer loop over the operators of the update document
updateLoop(ops, i, st) ==
    IF i > Len(ops) THEN st
    ELSE IF ops[i].k = kSet /\ ops[i].v.t = "obj"
    THEN updateLoop(ops, i + 1, setLoop(ops[i].v.a, 1, st))
    ELSE IF ops[i].k = kInc /\ ops[i].v.t = "obj"
    THEN updateLoop(ops, i + 1, incLoop(ops[i].v.a, 1, st))
    ELSE updateLoop(ops, i + 1, st)

\* a result that is never null
neverNull(st) == [isNull |-> FALSE, expression |-> st.expr, params |-> st.p]

\* buildUpdateSetExpressionAndParams; isNull stands for the null result
updateResult(st) == [isNull |-> st.applied = 0, expression |-> st.expr, params |-> st.p]

buildUpdateSetExpressionAndParams(ops) ==
    updateResult(updateLoop(ops, 1,
                            [expr |-> quoteIdent(<<"data">>), p |-> <<>>, applied |-> 0]))

\* the length of the run of digit characters of text that starts at i
RECURSIVE digitRun(_, _)
digitRun(text, i) ==
    IF i > Len(text) \/ text[i] \notin DigitSet THEN 0 ELSE 1 + digitRun(text, i + 1)

\* the concatenation of seqs[lo..hi]
RECURSIVE ConcatRange(_, _, _)
ConcatRange(seqs, lo, hi) ==
    CASE lo > hi -> <<>>
      [] lo = hi -> seqs[lo]
      [] OTHER -> ConcatRange(seqs, lo, (lo + hi) \div 2)
                  \o ConcatRange(seqs, ((lo + hi) \div 2) + 1, hi)

\* piece j of the text is a digit of a match of /\$(\d+)/g
isDigitOfMatch(text, j) ==
    /\ text[j] \in DigitSet
    /\ \E i \in 1..(j - 1) : text[i] = "$" /\ \A m \in (i + 1)..j : text[m] \in DigitSet

\* what the replace callback leaves of piece i: the first digit of a match
\* carries the whole new number, its other digits are gone
renumberPiece(sql, text, i, startingIndex) ==
    CASE ~isDigitOfMatch(text, i) -> <<sql[i]>>
      [] text[i - 1] = "$" ->
            Taint(Digits(parseInt(SubSeq(text, i, i + digitRun(text, i) - 1)) + startingIndex),
                  sql[i].u)
      [] OTHER -> <<>>

\* a renumber pass that leaves the text as it is
renumberNothing(sql, startingIndex) == sql

\* renumberPlaceholders: sql.replace(/\$(\d+)/g, ...) reads the text only
renumberPlaceholders(sql, startingIndex) ==
    ConcatRange([i \in DOMAIN sql |-> renumberPiece(sql, TextOf(sql), i, startingIndex)],
                1, Len(sql))

\* lines 206-222 of updateOne (updateMany: 242-256): the statement and its
\* parameters, with the parts it was put together from
updateParts(w, u, setExpr) ==
    [threw |-> w.threw,
     noop |-> u.isNull,
     where |-> w.sql,
     filterParams |-> w.params,
     expression |-> u.expression,
     updateParams |-> u.params,
     setExpr |-> setExpr,
     sql |-> C("UPDATE") \o quoteIdent(Collection) \o C("SET") \o C("data") \o C("=")
             \o setExpr \o w.sql,
     params |-> w.params \o u.params]

updateRenumbered(w, u) ==
    updateParts(w, u, renumberPlaceholders(u.expression, Len(w.params)))

updateStatement(filter, ops) ==
    updateRenumbered(buildWhereClauseAndParams(filter), buildUpdateSetExpressionAndParams(ops))


(***************************************************************************)
(* Inputs of the compiler runs                                             *)
(***************************************************************************)
MaxArity == 2      \* operands of one $and / $or / $nor
MaxIndex == 1      \* largest numeric path segment

Strs == {<<"x">>, <<"x", "'">>, <<"'", "x", "'", "'">>}
Scalars == {StrV(s) : s \in Strs} \cup {IntV(1), Null}
FieldKeys == {<<"a">>, <<"a", "'", "b">>, <<"a", ".", "b">>, <<"a", ".", "b", "'">>}
             \cup {<<"a", ".">> \o Digits(n) : n \in 0..MaxIndex}

Op1(k, v) == Obj(<<Entry(k, v)>>)
OperatorObjects ==
    {Op1(k, v) : k \in {kEq, kNe, kGt, kLte, kRegex}, v \in Scalars}
    \cup {Op1(k, Arr(<<>>)) : k \in {kIn, kNin, kAll}}
    \cup {Op1(k, Arr(<<v>>)) : k \in {kIn, kNin, kAll}, v \in Scalars}
    \cup {Op1(k, Arr(<<v, Null>>)) : k \in {kIn, kNin}, v \in Scalars \ {Null}}
    \cup {Op1(kNot, Op1(k, v)) : k \in {kEq, kGt}, v \in Scalars}
    \cup {Op1(kNot, Op1(k, Arr(<<>>))) : k \in {kIn, kNin}}
    \cup {Obj(<<Entry(kGte, IntV(1)), Entry(kLt, v)>>) : v \in Scalars}
    \cup {Obj(<<Entry(kRegex, v), Entry(kOptions, StrV(<<"i">>))>>) : v \in Scalars}
    \cup {Op1(kRegex, StrV(<<"/", "x", "'", "/", "i">>)),
          Op1(kExists, BoolV(TRUE)), Op1(kExists, BoolV(FALSE)),
          Op1(kSize, IntV(1)), Op1(kType, StrV(<<"string">>)), Op1(kType, StrV(<<"x">>)),
          Op1(kMod, Arr(<<IntV(2), IntV(0)>>)),
          Op1(kElemMatch, Obj(<<Entry(kGte, IntV(1)), Entry(kLt, IntV(2))>>)),
          Op1(kElemMatch, Obj(<<Entry(<<"b">>, StrV(<<"x">>))>>)),
          Op1(kElemMatch, Obj(<<Entry(<<"b">>, Op1(kAll, Arr(<<StrV(<<"x", "'">>)>>)))>>)),
          Op1(kSearch, StrV(<<"x">>)), Op1(kWhere, StrV(<<"x">>))}

FieldClauses == {Entry(k, v) : k \in FieldKeys, v \in Scalars \cup OperatorObjects}

\* the sub-documents that logical operators are built over
BaseDocs ==
    {<<>>} \cup
    {<<Entry(<<"a">>, v)>> : v \in {StrV(<<"x">>), IntV(1), Null,
                                     Op1(kIn, Arr(<<>>)), Op1(kNin, Arr(<<>>)),
                                     Op1(kIn, Arr(<<StrV(<<"x">>)>>))}}
    \cup {<<Entry(<<"b">>, StrV(<<"y">>))>>}

SeqsUpTo(S, n) == UNION {[1..k -> S] : k \in 0..n}

LogicalEntries(docs) ==
    {Entry(op, Arr(args)) : op \in {kAnd, kOr, kNor},
                            args \in SeqsUpTo({Obj(d) : d \in docs}, MaxArity)}
    \cup {Entry(kNot, Obj(d)) : d \in docs}
    \cup {Entry(kNot, Op1(kGt, IntV(1)))}

Siblings == {Entry(<<"c">>, StrV(<<"z">>)), Entry(<<"c">>, Op1(kNin, Arr(<<>>))),
             Entry(kText, Op1(kSearch, StrV(<<"x">>))), Entry(kWhere, StrV(<<"x">>)),
             Entry(<<"$", "foo">>, IntV(1))}

Logical1 == LogicalEntries(BaseDocs)
NestedDocs == {<<Entry(op, Arr(<<Obj(d), Obj(<<Entry(<<"b">>, StrV(<<"y">>))>>)>>))>> :
                  op \in {kAnd, kOr}, d \in BaseDocs}
Logical2 == {Entry(op, Arr(<<Obj(d)>>)) : op \in {kAnd, kOr, kNor}, d \in NestedDocs}
            \cup {Entry(kNot, Obj(d)) : d \in NestedDocs}
            \cup {Entry(kAnd, Arr(<<Obj(<<Entry(<<"b">>, StrV(<<"y">>))>>), Obj(d)>>)) :
                     d \in NestedDocs}

\* $where as a key of the document, of a sub-document of a logical operator
\* and of the operand of $elemMatch, next to a field or alone
WhereEntry == Entry(kWhere, StrV(<<"x">>))
WhereDocs == {<<WhereEntry>>, <<Entry(<<"b">>, StrV(<<"y">>)), WhereEntry>>}
WhereQueries ==
    {<<WhereEntry>>, <<Entry(<<"b">>, StrV(<<"y">>)), WhereEntry>>,
     <<Entry(<<"b">>, Op1(kIn, Arr(<<>>))), WhereEntry>>}
    \cup {<<Entry(op, Arr(<<Obj(d)>>))>> : op \in {kAnd, kOr, kNor}, d \in WhereDocs}
    \cup {<<Entry(kNot, Obj(d))>> : d \in WhereDocs}
    \cup {<<Entry(kAnd, Arr(<<Obj(<<Entry(kOr, Arr(<<Obj(d)>>))>>)>>))>> : d \in WhereDocs}
    \cup {<<Entry(<<"a">>, Op1(kElemMatch, Obj(d)))>> : d \in WhereDocs}

Queries ==
    WhereQueries \cup
    {<<>>}
    \cup {<<fc>> : fc \in FieldClauses}
    \cup {<<le>> : le \in Logical1 \cup Logical2}
    \cup {<<s, le>> : s \in Siblings, le \in Logical1}
    \cup {<<le, s>> : s \in Siblings, le \in Logical1}
    \cup {<<Entry(<<"c">>, StrV(<<"z">>)), fc>> :
             fc \in {Entry(<<"a">>, Op1(kIn, Arr(<<>>))), Entry(<<"a">>, Op1(kNin, Arr(<<>>))),
                     Entry(<<"a">>, Op1(kAll, Arr(<<>>)))}}

SortKeys == FieldKeys
Sorts == {<<>>} \cup {<<Entry(k, d)>> : k \in SortKeys, d \in {1, -1}}
         \cup {<<Entry(<<"a">>, 1), Entry(k, -1)>> : k \in SortKeys \ {<<"a">>}}

UpdateKeys == {<<"a">>, <<"a", ".", "b">>, <<"a", "$", "1">>, <<"a", "'">>}
SetMaps == {<<>>} \cup {<<Entry(k, v)>> : k \in UpdateKeys, v \in {IntV(5), StrV(<<"x", "'">>)}}
           \cup {<<Entry(<<"a">>, IntV(5)), Entry(<<"b">>, IntV(6))>>}
IncMaps == {<<>>} \cup {<<Entry(k, v)>> : k \in UpdateKeys, v \in {IntV(1), StrV(<<"x">>)}}
Updates ==
    {<<>>}
    \cup {<<Entry(kSet, Obj(m))>> : m \in SetMaps}
    \cup {<<Entry(kInc, Obj(m))>> : m \in IncMaps}
    \cup {<<Entry(kSet, Obj(m)), Entry(kInc, Obj(n))>> : m \in SetMaps, n \in IncMaps}
    \cup {<<Entry(<<"$", "push">>, Obj(<<Entry(<<"a">>, IntV(1))>>))>>,
          <<Entry(kSet, IntV(1))>>}

Filters ==
    {<<>>, <<Entry(<<"b">>, StrV(<<"x">>))>>,
     <<Entry(<<"b">>, StrV(<<"x">>)), Entry(<<"c">>, IntV(1))>>,
     <<Entry(<<"b">>, IntV(1)), Entry(kOr, Arr(<<>>))>>,
     <<Entry(kAnd, Arr(<<>>))>>,
     <<Entry(<<"b">>, Op1(kGt, IntV(1)))>>}

(***************************************************************************)
(* The compiler runs: one call of one entry point on one input             *)
(***************************************************************************)
NoOut == [kind |-> "none", sql |-> <<>>, params |-> <<>>, threw |-> FALSE,
          noop |-> FALSE, where |-> <<>>, filterParams |-> <<>>,
          expression |-> <<>>, updateParams |-> <<>>, setExpr |-> <<>>]

outOf(kind, r) ==
    [NoOut EXCEPT !.kind = kind, !.sql = r.sql, !.params = r.params, !.threw = r.threw]

updateOut(r) ==
    [kind |-> "update", sql |-> r.sql, params |-> r.params, threw |-> r.threw,
     noop |-> r.noop, where |-> r.where, filterParams |-> r.filterParams,
     expression |-> r.expression, updateParams |-> r.updateParams, setExpr |-> r.setExpr]

\* the store is not part of the compiler runs
StoreOff ==
    /\ softDelete = FALSE /\ table = <<>> /\ inst = <<>> /\ loaded = <<>>
    /\ now = 0 /\ call = <<>> /\ tx = <<>>

\* the pool is there before the run starts: DatabaseManager.instance is set
ManagerOff == manager = <<>>

CompileInit ==
    /\ StoreOff
    /\ ManagerOff
    /\ pc = "ready"
    /\ out = NoOut
    /\ \/ query \in Queries /\ sort = <<>> /\ updateOps = <<>>
       \/ query \in {<<>>, <<Entry(<<"b">>, StrV(<<"x">>))>>} /\ sort \in Sorts
          /\ updateOps = <<>>
       \/ query \in Filters /\ sort = <<>> /\ updateOps \in Updates

\* mongoToPg.buildSelectQueryAndParams(name, query, {sort})
BuildSelect ==
    /\ pc = "ready"
    /\ out' = outOf("select", buildSelectQueryAndParams(Collection, query, sort, 0, 0))
    /\ pc' = "done"
    /\ UNCHANGED <<query, sort, updateOps>>
    /\ UNCHANGED svars

\* mongoToPg.buildWhereClauseAndParams(query)
BuildWhere ==
    /\ pc = "ready"
    /\ out' = outOf("where", buildWhereClauseAndParams(query))
    /\ pc' = "done"
    /\ UNCHANGED <<query, sort, updateOps>>
    /\ UNCHANGED svars

\* the statement updateOne / updateMany put together for (query, updateOps)
BuildUpdate ==
    /\ pc = "ready"
    /\ out' = updateOut(updateStatement(query, updateOps))
    /\ pc' = "done"
    /\ UNCHANGED <<query, sort, updateOps>>
    /\ UNCHANGED svars

CompileNext == BuildSelect \/ BuildWhere \/ BuildUpdate

SpecCompile == CompileInit /\ [][CompileNext]_vars


(***************************************************************************)
(* Reading an emitted statement: placeholders and string literals          *)
(***************************************************************************)
\* the pieces of sql at which an emitted placeholder starts, in text order
placeholderStarts(sql) ==
    SelectSeq([i \in DOMAIN sql |-> i], LAMBDA i : sql[i] = Tok("$", "code"))

numberAt(text, i) == parseInt(SubSeq(text, i + 1, i + digitRun(text, i + 1)))

numbersAt(text, starts) == [k \in DOMAIN starts |-> numberAt(text, starts[k])]

\* the numbers of the placeholders the compiler emitted, in text order
placeholdersIn(sql) == numbersAt(TextOf(sql), placeholderStarts(sql))

\* piece j of sql belongs to an emitted placeholder
inPlaceholder(sql, j) ==
    \/ sql[j] = Tok("$", "code")
    \/ /\ sql[j].s \in DigitSet
       /\ \E i \in 1..(j - 1) : /\ sql[i] = Tok("$", "code")
                                /\ \A m \in (i + 1)..j : sql[m].s \in DigitSet

textAt(sql, kept) == [k \in DOMAIN kept |-> sql[kept[k]].s]

\* the statement without its placeholders
withoutPlaceholders(sql) ==
    textAt(sql, SelectSeq([i \in DOMAIN sql |-> i], LAMBDA i : ~inPlaceholder(sql, i)))

\* PostgreSQL's scanner on quotes: "out" is outside of every literal, "in" is
\* inside a single-quoted literal, "inq" is after a quote read inside a
\* literal (it closes the literal unless a second quote follows), "id" is
\* inside a double-quoted identifier
lexStep(st, ch) ==
    CASE st = "out" -> (IF ch = "'" THEN "in" ELSE IF ch = "\"" THEN "id" ELSE "out")
      [] st = "id" -> (IF ch = "\"" THEN "out" ELSE "id")
      [] st = "in" -> (IF ch = "'" THEN "inq" ELSE "in")
      [] OTHER -> (IF ch = "'" THEN "in" ELSE IF ch = "\"" THEN "id" ELSE "out")

LexStates == {"out", "in", "inq", "id"}

\* what two stretches of text read one after the other do to the state
lexCompose(f, g) == [st \in LexStates |-> g[f[st]]]

\* what the pieces lo..hi of the text do to the scanner's state
RECURSIVE lexRange(_, _, _)
lexRange(text, lo, hi) ==
    CASE lo > hi -> [st \in LexStates |-> st]
      [] lo = hi -> [st \in LexStates |-> lexStep(st, text[lo])]
      [] OTHER -> lexCompose(lexRange(text, lo, (lo + hi) \div 2),
                             lexRange(text, ((lo + hi) \div 2) + 1, hi))

\* piece i of sql, read in the scanner's state pre, is content of a literal
escapedIn(sql, i, pre) ==
    IF sql[i].s # "'" THEN pre = "in"
    ELSE \/ pre = "in" /\ i < Len(sql) /\ sql[i + 1] = sql[i]
         \/ pre = "inq" /\ sql[i - 1] = sql[i]

\* piece i of sql is content of a single-quoted literal; a quote is content
\* only as one half of a doubled quote whose other half has the same origin
isEscapedContent(sql, i) == escapedIn(sql, i, lexRange(TextOf(sql), 1, i - 1)["out"])

\* every piece of sql that comes from u is content of an escaped literal
allEscaped(sql, u) == \A i \in DOMAIN sql : sql[i].u = u => isEscapedContent(sql, i)

\* the query uses equality, $eq, $ne, $in and $nin only, under any logical
\* operators
RECURSIVE onlyParameterizing(_)
onlyParameterizing(q) ==
    \A i \in DOMAIN q :
        LET k == q[i].k
            v == q[i].v
        IN IF k \in {kAnd, kOr, kNor}
           THEN v.t = "arr" /\ \A j \in DOMAIN v.a :
                                  v.a[j].v.t = "obj" /\ onlyParameterizing(v.a[j].v.a)
           ELSE IF k = kNot THEN v.t = "obj" /\ onlyParameterizing(v.a)
           ELSE IF startsWithDollar(k) THEN FALSE
           ELSE IF isOperatorObject(v)
                THEN \A j \in DOMAIN v.a : v.a[j].k \in {kEq, kNe, kIn, kNin}
                ELSE TRUE

\* no key of the query, at any depth, holds a single quote
RECURSIVE plainKeys(_)
plainKeys(v) ==
    \A i \in DOMAIN v.a : /\ \A j \in DOMAIN v.a[i].k : v.a[i].k[j] # "'"
                          /\ plainKeys(v.a[i].v)

Compiled == pc = "done" /\ out.kind \in {"select", "where"} /\ ~out.threw

(***************************************************************************)
(* Claims about the compiler                                               *)
(***************************************************************************)
\* C1: after a successful compile of any query document, the placeholders in
\* the emitted SQL are exactly $1 .. $n for n the length of the returned
\* parameter array, each once - also when a logical operator or a sibling
\* clause short-circuited to TRUE or FALSE.
C1_PlaceholdersMatchParams ==
    Compiled =>
        LET ps == placeholdersIn(out.sql)
        IN /\ Len(ps) = Len(out.params)
           /\ {ps[i] : i \in DOMAIN ps} = 1..Len(out.params)

\* C3: a string operand of a parameterizing operator never appears in the SQL
\* text, and a string operand of an inlining operator ($gt, $gte, $lt, $lte,
\* $regex, $all) appears only inside a single-quoted literal with its single
\* quotes doubled.  Stated for queries whose keys hold no quote, so that the
\* literals around the operands are the ones the compiler opened.
C3_OperandsNeverRawInSql ==
    (Compiled /\ plainKeys(Obj(query))) =>
        /\ onlyParameterizing(query) => \A i \in DOMAIN out.sql : out.sql[i].u # "val"
        /\ allEscaped(out.sql, "val")

\* C4: every dot-separated segment of a query key or sort key appears in the
\* SQL only as an unquoted all-digit index or inside a single-quoted literal
\* with its single quotes doubled.
C4_PathSegmentsEscaped ==
    Compiled =>
        /\ allEscaped(out.sql, "path")
        /\ \A i \in DOMAIN out.sql : out.sql[i].u = "idx" => out.sql[i].s \in DigitSet

UpdateBuilt ==
    /\ pc = "done" /\ out.kind = "update" /\ ~out.threw /\ ~out.noop
    /\ Len(out.where) > 0

\* C5: for a non-empty filter with parameters P_w and an update with
\* parameters P_u, the statement's parameters are P_w followed by P_u, the
\* WHERE clause is the compiled one, the SET expression's placeholders are
\* $|P_w|+1 .. $|P_w|+|P_u| in order, and the renumbering alters nothing but
\* the SET expression's placeholders.
C5_UpdateRenumbering ==
    UpdateBuilt =>
        /\ out.params = out.filterParams \o out.updateParams
        /\ out.sql = C("UPDATE") \o quoteIdent(Collection) \o C("SET") \o C("data")
                     \o C("=") \o out.setExpr \o out.where
        /\ placeholdersIn(out.setExpr)
             = [i \in 1..Len(out.updateParams) |-> Len(out.filterParams) + i]
        /\ withoutPlaceholders(out.setExpr) = withoutPlaceholders(out.expression)


(***************************************************************************)
(* What PostgreSQL computes for an emitted WHERE clause on one row         *)
(***************************************************************************)
SqlNull == Val("sqlnull", <<>>, 0, <<>>)
SqlErr == Val("sqlerr", <<>>, 0, <<>>)
Jsonb(v) == Val("jsonb", <<>>, 0, <<Entry(<<>>, v)>>)
JsonbText(s) == Val("jsonbtext", s, 0, <<>>)
CastTokens == {"::integer", "::numeric", "::boolean"}

\* three-valued logic, with "E" for a statement that fails
Not3(a) == CASE a = "T" -> "F" [] a = "F" -> "T" [] OTHER -> a
And3(a, b) == CASE a = "E" \/ b = "E" -> "E"
                [] a = "F" \/ b = "F" -> "F"
                [] a = "N" \/ b = "N" -> "N"
                [] OTHER -> "T"
Or3(a, b) == Not3(And3(Not3(a), Not3(b)))
Bool3(b) == IF b THEN "T" ELSE "F"

\* jsonb -> 'key' and jsonb -> index
jsonArrow(j, seg, quoted) ==
    IF j.t # "jsonb" THEN SqlNull
    ELSE LET v == j.a[1].v
         IN IF quoted
            THEN IF v.t = "obj" /\ \E i \in DOMAIN v.a : v.a[i].k = seg
                 THEN Jsonb(Get(v, seg)) ELSE SqlNull
            ELSE IF v.t = "arr" /\ parseInt(seg) < Len(v.a)
                 THEN Jsonb(v.a[parseInt(seg) + 1].v) ELSE SqlNull

\* the text that ->> gives for a jsonb value
jsonText(j) ==
    IF j.t # "jsonb" THEN SqlNull
    ELSE LET v == j.a[1].v
         IN CASE v.t = "null" -> SqlNull
              [] v.t = "str" -> StrV(v.s)
              [] OTHER -> StrV(TextOf(stringify(v)))

\* the content of the literal whose opening quote is before piece i
RECURSIVE readLit(_, _, _)
readLit(t, i, acc) ==
    IF i > Len(t) THEN [s |-> acc, i |-> i, ok |-> FALSE]
    ELSE IF t[i] # "'" THEN readLit(t, i + 1, Append(acc, t[i]))
    ELSE IF i < Len(t) /\ t[i + 1] = "'" THEN readLit(t, i + 2, Append(acc, "'"))
    ELSE [s |-> acc, i |-> i + 1, ok |-> TRUE]

\* the chain of -> / ->> steps that starts at piece i, applied to cur
RECURSIVE sqlPath(_, _, _)
sqlPath(t, i, cur) ==
    IF i <= Len(t) /\ t[i] \in {"->", "->>"}
    THEN LET quoted == i < Len(t) /\ t[i + 1] = "'"
             lit == readLit(t, i + 2, <<>>)
             n == digitRun(t, i + 1)
             seg == IF quoted THEN lit.s ELSE SubSeq(t, i + 1, i + n)
             next == IF quoted THEN lit.i ELSE i + 1 + n
             ok == IF quoted THEN lit.ok ELSE n > 0
             stepped == jsonArrow(cur, seg, quoted)
         IN IF ~ok THEN [v |-> SqlErr, i |-> Len(t) + 2]
            ELSE IF t[i] = "->>" THEN [v |-> jsonText(stepped), i |-> next]
            ELSE sqlPath(t, next, stepped)
    ELSE [v |-> cur, i |-> i]

\* (text)::integer and its kin
sqlCast(v) ==
    CASE v.t = "sqlnull" -> SqlNull
      [] v.t = "str" /\ isNumericIndex(v.s) -> IntV(parseInt(v.s))
      [] OTHER -> SqlErr

\* data -> ... or (data -> ...)::cast at piece i, p the path read after data
sqlPathOperand(t, i, p) ==
    IF t[i] = "data" THEN p
    ELSE IF p.i < Len(t) /\ t[p.i] = ")" /\ t[p.i + 1] \in CastTokens
         THEN [v |-> sqlCast(p.v), i |-> p.i + 2]
         ELSE [v |-> SqlErr, i |-> Len(t) + 2]

\* $k and the parameter it names
sqlPlaceholder(t, i, n, params) ==
    IF n > 0 /\ parseInt(SubSeq(t, i + 1, i + n)) \in DOMAIN params
    THEN [v |-> IF params[parseInt(SubSeq(t, i + 1, i + n))].t = "null" THEN SqlNull
                ELSE params[parseInt(SubSeq(t, i + 1, i + n))],
          i |-> i + 1 + n]
    ELSE [v |-> SqlErr, i |-> Len(t) + 2]

\* '...' or '...'::jsonb, lit the literal read after the quote
sqlLiteral(t, lit) ==
    IF ~lit.ok THEN [v |-> SqlErr, i |-> Len(t) + 2]
    ELSE IF lit.i <= Len(t) /\ t[lit.i] = "::jsonb"
         THEN [v |-> JsonbText(lit.s), i |-> lit.i + 1]
         ELSE [v |-> StrV(lit.s), i |-> lit.i]

\* a value expression at piece i: a path, a cast path, a placeholder, a literal
sqlOperand(t, i, params, row) ==
    CASE i > Len(t) -> [v |-> SqlErr, i |-> Len(t) + 2]
      [] i <= Len(t) /\ (t[i] = "data" \/ (i < Len(t) /\ t[i] = "(" /\ t[i + 1] = "data")) ->
            sqlPathOperand(t, i, sqlPath(t, IF t[i] = "data" THEN i + 1 ELSE i + 2,
                                         Jsonb(row)))
      [] i <= Len(t) /\ t[i] = "$" -> sqlPlaceholder(t, i, digitRun(t, i + 1), params)
      [] i <= Len(t) /\ t[i] = "'" -> sqlLiteral(t, readLit(t, i + 1, <<>>))
      [] OTHER -> [v |-> SqlErr, i |-> Len(t) + 2]

\* the text of a scalar, as the server compares it with a text column
sqlTextOf(v) == IF v.t = "int" THEN Digits(v.n) ELSE v.s

\* l = r
sqlEq(l, r) ==
    CASE l.t = "sqlerr" \/ r.t = "sqlerr" -> "E"
      [] l.t = "sqlnull" \/ r.t = "sqlnull" -> "N"
      [] l.t = "jsonb" /\ r.t = "jsonbtext" -> Bool3(TextOf(stringify(l.a[1].v)) = r.s)
      [] l.t \in {"str", "int"} /\ r.t \in {"str", "int"} -> Bool3(sqlTextOf(l) = sqlTextOf(r))
      [] OTHER -> "E"

\* l IS DISTINCT FROM r
sqlDistinct(l, r) ==
    CASE l.t = "sqlerr" \/ r.t = "sqlerr" -> "E"
      [] l.t = "sqlnull" /\ r.t = "sqlnull" -> "F"
      [] l.t = "sqlnull" \/ r.t = "sqlnull" -> "T"
      [] OTHER -> Not3(sqlEq(l, r))

\* l = ANY(array parameter)
RECURSIVE sqlAny(_, _, _)
sqlAny(l, els, i) ==
    IF i > Len(els) THEN "F"
    ELSE Or3(sqlEq(l, IF els[i].t = "null" THEN SqlNull ELSE els[i]), sqlAny(l, els, i + 1))

\* the comparison of l, read up to piece j, with r, read after its operator
sqlCompare(t, l, j, r) ==
    CASE t[j] = "IS DISTINCT FROM" -> [v |-> sqlDistinct(l.v, r.v), i |-> r.i]
      [] t[j] \in {"=", "!=", "<>"} /\ j < Len(t) /\ t[j + 1] \in {"ANY(", "ALL("} ->
            IF r.i <= Len(t) /\ t[r.i] = ")" /\ r.v.t = "arr"
               /\ (t[j] = "=") = (t[j + 1] = "ANY(")
            THEN [v |-> IF l.v.t = "sqlerr" THEN "E"
                        ELSE IF l.v.t = "sqlnull" THEN "N"
                        ELSE IF t[j] = "=" THEN sqlAny(l.v, Elems(r.v), 1)
                        ELSE Not3(sqlAny(l.v, Elems(r.v), 1)),
                  i |-> r.i + 1]
            ELSE [v |-> "E", i |-> Len(t) + 2]
      [] t[j] = "=" /\ ~(j < Len(t) /\ t[j + 1] \in {"ANY(", "ALL("}) ->
            [v |-> sqlEq(l.v, r.v), i |-> r.i]
      [] t[j] \in {"!=", "<>"} /\ ~(j < Len(t) /\ t[j + 1] \in {"ANY(", "ALL("}) ->
            [v |-> Not3(sqlEq(l.v, r.v)), i |-> r.i]
      [] OTHER -> [v |-> "E", i |-> Len(t) + 2]

\* the piece at which the right operand of the operator at piece j starts
sqlRight(t, j) ==
    IF t[j] \in {"=", "!=", "<>"} /\ j < Len(t) /\ t[j + 1] \in {"ANY(", "ALL("}
    THEN j + 2 ELSE j + 1

\* a comparison whose left operand l was read
sqlAtom(t, l, params, row) ==
    IF l.i > Len(t) THEN [v |-> "E", i |-> Len(t) + 2]
    ELSE IF t[l.i] = "IS NULL"
    THEN [v |-> IF l.v.t = "sqlerr" THEN "E" ELSE Bool3(l.v.t = "sqlnull"), i |-> l.i + 1]
    ELSE IF t[l.i] = "IS NOT NULL"
    THEN [v |-> IF l.v.t = "sqlerr" THEN "E" ELSE Bool3(l.v.t # "sqlnull"), i |-> l.i + 1]
    ELSE sqlCompare(t, l, l.i, sqlOperand(t, sqlRight(t, l.i), params, row))

\* NOT p, ( e ), TRUE, FALSE or a comparison at piece i; AND binds tighter
\* than OR and both associate to the left.  acc is the value of the
\* conjuncts (disjuncts) read so far.
RECURSIVE sqlOr(_, _, _, _, _), sqlAnd(_, _, _, _, _), sqlPrimary(_, _, _, _)
sqlNot(r) == [v |-> Not3(r.v), i |-> r.i]
sqlClosed(t, r) ==
    IF r.i <= Len(t) /\ t[r.i] = ")" THEN [v |-> r.v, i |-> r.i + 1]
    ELSE [v |-> "E", i |-> Len(t) + 2]

\* l is the value expression at piece i, if there is one: a cast path is told
\* from a parenthesis by it
sqlPrimaryOf(t, i, l, params, row) ==
    CASE t[i] = "TRUE" -> [v |-> "T", i |-> i + 1]
      [] t[i] = "FALSE" -> [v |-> "F", i |-> i + 1]
      [] t[i] = "NOT" \/ (t[i] = "(" /\ l.i > Len(t) + 1) ->
            IF t[i] = "NOT" THEN sqlNot(sqlPrimary(t, i + 1, params, row))
            ELSE sqlClosed(t, sqlOr(t, i + 1, "F", params, row))
      [] OTHER -> sqlAtom(t, l, params, row)

sqlPrimary(t, i, params, row) ==
    IF i > Len(t) THEN [v |-> "E", i |-> Len(t) + 2]
    ELSE sqlPrimaryOf(t, i, sqlOperand(t, i, params, row), params, row)

sqlAndNext(t, acc, r, params, row) ==
    IF r.i <= Len(t) /\ t[r.i] = "AND"
    THEN sqlAnd(t, r.i + 1, And3(acc, r.v), params, row)
    ELSE [v |-> And3(acc, r.v), i |-> r.i]

sqlAnd(t, i, acc, params, row) ==
    sqlAndNext(t, acc, sqlPrimary(t, i, params, row), params, row)

sqlOrNext(t, acc, r, params, row) ==
    IF r.i <= Len(t) /\ t[r.i] = "OR"
    THEN sqlOr(t, r.i + 1, Or3(acc, r.v), params, row)
    ELSE [v |-> Or3(acc, r.v), i |-> r.i]

sqlOr(t, i, acc, params, row) ==
    sqlOrNext(t, acc, sqlAnd(t, i, "T", params, row), params, row)

\* the value of the whole text t
sqlWhole(t, r) == IF r.i = Len(t) + 1 THEN r.v ELSE "E"

\* the truth value of the clause ("WHERE ..." or nothing) on the row: the row
\* is selected exactly when it is "T"
sqlTruth(where, params, row) ==
    IF Len(where) = 0 THEN "T"
    ELSE sqlWhole(Tail(TextOf(where)),
                  sqlOr(Tail(TextOf(where)), 1, "F", params, row))

sqlSelects(where, params, row) == sqlTruth(where, params, row) = "T"


(***************************************************************************)
(* MongoDB's reference semantics of a query on one document                *)
(***************************************************************************)
\* the value at a dotted path, Undefined when a step is missing
RECURSIVE mongoGet(_, _)
mongoGet(v, parts) ==
    IF Len(parts) = 0 THEN v
    ELSE IF v.t = "obj" THEN mongoGet(Get(v, Head(parts)), Tail(parts))
    ELSE IF v.t = "arr" /\ isNumericIndex(Head(parts)) /\ parseInt(Head(parts)) < Len(v.a)
         THEN mongoGet(v.a[parseInt(Head(parts)) + 1].v, Tail(parts))
    ELSE Undefined

\* {field: value}: null also matches a missing field, an array field matches
\* by any element
mongoEq(fv, v) ==
    \/ v.t = "null" /\ fv.t \in {"null", "undef"}
    \/ v.t # "null" /\ fv = v
    \/ fv.t = "arr" /\ \E i \in DOMAIN fv.a : fv.a[i].v = v

RECURSIVE mongoOps(_, _)
mongoOps(fv, ops) ==
    \A i \in DOMAIN ops :
        LET o == ops[i].k
            x == ops[i].v
        IN CASE o = kEq -> mongoEq(fv, x)
             [] o = kNe -> ~mongoEq(fv, x)
             [] o = kIn -> \E j \in DOMAIN x.a : mongoEq(fv, x.a[j].v)
             [] o = kNin -> ~\E j \in DOMAIN x.a : mongoEq(fv, x.a[j].v)
             [] o = kNot -> ~mongoOps(fv, x.a)
             [] OTHER -> FALSE

RECURSIVE mongoMatches(_, _)
mongoMatches(q, doc) ==
    \A i \in DOMAIN q :
        LET k == q[i].k
            v == q[i].v
        IN CASE k = kAnd -> \A j \in DOMAIN v.a : mongoMatches(v.a[j].v.a, doc)
             [] k = kOr -> \E j \in DOMAIN v.a : mongoMatches(v.a[j].v.a, doc)
             [] k = kNor -> ~\E j \in DOMAIN v.a : mongoMatches(v.a[j].v.a, doc)
             [] k = kNot -> ~mongoMatches(v.a, doc)
             [] OTHER -> IF isOperatorObject(v)
                         THEN mongoOps(mongoGet(doc, split(k, ".")), v.a)
                         ELSE mongoEq(mongoGet(doc, split(k, ".")), v)

\* queries of $and, $or, $nor, $not over sub-documents whose field clauses
\* are string or null equalities or the constants {$in: []} and {$nin: []}
RECURSIVE isLogicalQuery(_)
isLogicalQuery(q) ==
    \A i \in DOMAIN q :
        LET k == q[i].k
            v == q[i].v
        IN IF k \in {kAnd, kOr, kNor}
           THEN v.t = "arr" /\ \A j \in DOMAIN v.a :
                                  v.a[j].v.t = "obj" /\ isLogicalQuery(v.a[j].v.a)
           ELSE IF k = kNot
                THEN v.t = "obj" /\ (\A j \in DOMAIN v.a : ~startsWithDollar(v.a[j].k)
                                                           \/ isLogicalOperator(v.a[j].k))
                     /\ isLogicalQuery(v.a)
           ELSE IF startsWithDollar(k) THEN FALSE
           ELSE /\ \A j \in DOMAIN k : k[j] \notin {"'", "."}
                /\ \/ v.t \in {"str", "null"}
                   \/ /\ isOperatorObject(v)
                      /\ \A j \in DOMAIN v.a :
                            /\ v.a[j].k \in {kIn, kNin}
                            /\ v.a[j].v.t = "arr"
                            /\ Len(v.a[j].v.a) = 0

\* the stored documents the queries are compared on
Rows == {Obj(<<>>),
         Obj(<<Entry(<<"a">>, StrV(<<"x">>))>>),
         Obj(<<Entry(<<"b">>, StrV(<<"y">>))>>),
         Obj(<<Entry(<<"a">>, StrV(<<"x">>)), Entry(<<"b">>, StrV(<<"y">>))>>),
         Obj(<<Entry(<<"a">>, StrV(<<"q">>)), Entry(<<"b">>, StrV(<<"y">>)),
               Entry(<<"c">>, StrV(<<"z">>))>>),
         Obj(<<Entry(<<"a">>, Null), Entry(<<"b">>, StrV(<<"w">>))>>)}

\* C2: for every query built from $and, $or, $nor and $not over sub-documents
\* (the empty sub-document and the constant sub-queries included), the
\* emitted WHERE clause selects a stored document exactly when the query
\* matches it under MongoDB's semantics; an omitted clause selects every
\* document.
C2_LogicalOperatorsAgreeWithMongo ==
    (pc = "done" /\ out.kind = "where" /\ ~out.threw /\ isLogicalQuery(query)) =>
        \A row \in Rows :
            sqlSelects(out.sql, out.params, row) = mongoMatches(query, row)


(***************************************************************************)
(* The store: one model defineSchema("docs", {name: {type: "string",       *)
(* required: true}, status: {type: "string", validate}}, {softDelete})     *)
(* with a preSave hook, over one table of jsonb documents                  *)
(***************************************************************************)
MaxNow == 2     \* Date.now() takes the values 1 .. MaxNow
MaxVers == 3    \* an instance is saved while its _vers is below MaxVers
MaxCalls == 4   \* a run makes at most MaxCalls calls of methods

Ids == {"ida", "idb"}
Instances == {1, 2}
Names == {"x", "y"}
NullName == "(null)"
\* the values of status: the validate hook of the schema throws for "bad";
\* every stored document has passed it
Statuses == {"ok", "bad"}

\* a slot of the table: "free" (never inserted), "live", "gone" (deleted);
\* del is _deletedAt, 0 when the key is absent
FreeRow == [st |-> "free", vers |-> 0, ctime |-> 0, mtime |-> 0, name |-> "", del |-> 0]
GoneRow == [FreeRow EXCEPT !.st = "gone"]
Row(vers, ctime, mtime, name, del) ==
    [st |-> "live", vers |-> vers, ctime |-> ctime, mtime |-> mtime, name |-> name,
     del |-> del]
\* an id the transaction has not written
Same == [FreeRow EXCEPT !.st = "same"]

kDocId == <<"_id">>
kVers == <<"_vers">>
kCtime == <<"_ctime">>
kMtime == <<"_mtime">>
kName == <<"name">>
kDeletedAt == <<"_deletedAt">>

\* the jsonb value of the column data of a live row
rowData(id, r) ==
    Obj(<<Entry(kDocId, StrV(<<id>>)), Entry(kVers, IntV(r.vers)),
          Entry(kCtime, IntV(r.ctime)), Entry(kMtime, IntV(r.mtime)),
          Entry(kName, StrV(<<r.name>>))>>
        \o (IF r.del > 0 THEN <<Entry(kDeletedAt, IntV(r.del))>> ELSE <<>>))

\* a Document instance a caller holds: st is "none" (the caller holds no
\* document), "held" or "frozen"; orig is #originalVersion; pc is "check"
\* between the UPDATE of save() and its SELECT; res is how the last save()
\* of the instance ended; conn is the db handle save() took
NoInst == [st |-> "none", id |-> "", vers |-> 0, ctime |-> 0, mtime |-> 0, name |-> "",
           orig |-> 0, pc |-> "idle", res |-> "none", conn |-> "pool", status |-> "ok"]

\* new Document(row.data): Object.assign(this, data), #originalVersion
DocumentOf(id, r) ==
    [st |-> "held", id |-> id, vers |-> r.vers, ctime |-> r.ctime, mtime |-> r.mtime,
     name |-> r.name, orig |-> IF r.vers > 0 THEN r.vers ELSE 0, pc |-> "idle",
     res |-> "none", conn |-> "pool", status |-> "ok"]

\* toJSON(): _id, _vers, _ctime, _mtime and the fields of the schema; a row
\* does not record status, which the hook has accepted in every stored document
toJSON(d) == Row(d.vers, d.ctime, d.mtime, d.name, 0)

\* a validation that stops at the first field that fails
firstErrorOnly(d) ==
    [valid |-> d.name # NullName /\ d.status # "bad",
     errors |-> IF d.name = NullName THEN <<"name is required">>
                ELSE IF d.status = "bad" THEN <<"status: rejected">> ELSE <<>>]

\* #validate(): every field of the schema in turn; name is required, the
\* validate hook of status throws
validate(d) ==
    [valid |-> d.name # NullName /\ d.status # "bad",
     errors |-> (IF d.name = NullName THEN <<"name is required">> ELSE <<>>)
                \o (IF d.status = "bad" THEN <<"status: rejected">> ELSE <<>>)]

\* isNew()
isNew(d) == ~(d.orig > 0 /\ d.id # "")

(***************************************************************************)
(* Connections.  A statement on the pool reads and writes the committed    *)
(* table; a statement on the transaction's client reads the committed      *)
(* table overlaid with the transaction's own writes and writes the         *)
(* overlay (READ COMMITTED).                                               *)
(***************************************************************************)
\* a lookup that knows no ambient transaction
poolOnly(ctx) == "pool"

\* getConnection(): transactionContext.getStore() of the calling task, or
\* the pool
getConnection(ctx) == IF ctx = "tx" THEN "client" ELSE "pool"

viewOf(conn) ==
    IF conn = "client"
    THEN [id \in Ids |-> IF tx.ov[id].st = "same" THEN table[id] ELSE tx.ov[id]]
    ELSE table

\* a statement on the pool waits for rows the open transaction has written
notLocked(conn, rows) ==
    conn = "pool" => \A id \in Ids : rows[id] # table[id] => tx.ov[id].st = "same"

written(conn, rows) ==
    IF conn = "client"
    THEN [id \in Ids |-> IF rows[id] = viewOf(conn)[id] THEN tx.ov[id] ELSE rows[id]]
    ELSE tx.ov

\* the effect of a statement that leaves the rows as given
Write(conn, rows) ==
    /\ notLocked(conn, rows)
    /\ table' = IF conn = "pool" THEN rows ELSE table
    /\ tx' = [tx EXCEPT !.ov = written(conn, rows)]

NoWrite == UNCHANGED <<table, tx>>

\* a caller inside the callback exists while the callback runs; a run makes
\* at most MaxCalls calls
Caller(ctx) ==
    /\ call.k < MaxCalls
    /\ ctx = "none" \/ (ctx = "tx" /\ tx.pc = "cb")
Contexts == {"none", "tx"}

\* what the last step did: the method called, the context of the caller, the
\* handle the method took ("none" when it took none), the statements it
\* issued on it, whether it threw, the instance it was called on (0 for a
\* method of the model), the count it returned, whether its filter was
\* empty or missing, the number of calls made so far, the documents it
\* returned, counted or changed, its option includeDeleted, the text and
\* the parameters of the statement it issued, whether the preSave hook ran,
\* the errors of the validation it threw, the modifiedCount it returned, and
\* the update document it was given
Call(op, ctx, conn, stmts, threw, who, n, empty) ==
    [op |-> op, ctx |-> ctx, conn |-> conn, stmts |-> stmts, threw |-> threw,
     who |-> who, n |-> n, empty |-> empty, k |-> call.k + 1, ids |-> {},
     opt |-> FALSE, sql |-> <<>>, params |-> <<>>, hook |-> FALSE, errors |-> <<>>,
     m |-> 0, upd |-> <<>>]

\* a call that returned, counted or changed the documents ids
CallOn(op, ctx, conn, stmts, who, ids, empty, opt) ==
    [Call(op, ctx, conn, stmts, FALSE, who, Cardinality(ids), empty)
       EXCEPT !.ids = ids, !.opt = opt]

\* a step that continues a call made before
Step(op, ctx, conn, stmts, threw, who) ==
    [Call(op, ctx, conn, stmts, threw, who, 0, FALSE) EXCEPT !.k = call.k]

NoCall ==
    [op |-> "none", ctx |-> "none", conn |-> "none", stmts |-> <<>>, threw |-> FALSE,
     who |-> 0, n |-> 0, empty |-> FALSE, k |-> 0, ids |-> {}, opt |-> FALSE,
     sql |-> <<>>, params |-> <<>>, hook |-> FALSE, errors |-> <<>>, m |-> 0,
     upd |-> <<>>]

(***************************************************************************)
(* Document: create, find1, assignment of a field, save, remove            *)
(***************************************************************************)
\* generateId(): an id no document has had
isUnused(id) == table[id].st = "free" /\ tx.ov[id].st = "same"

\* new Document(doc) and save() on its insert branch: validation, then
\* INSERT ... VALUES ($1) with _vers 1 and _ctime = _mtime = Date.now()
Insert(ctx, i, id, name) ==
    /\ IF ~validate([NoInst EXCEPT !.name = name]).valid
       THEN /\ NoWrite
            /\ UNCHANGED <<inst, loaded>>
            /\ call' = [Call("create", ctx, getConnection(ctx), <<>>, TRUE, 0, 0, FALSE)
                          EXCEPT !.errors = validate([NoInst EXCEPT !.name = name]).errors]
       ELSE /\ Write(getConnection(ctx),
                     [viewOf(getConnection(ctx)) EXCEPT ![id] = Row(1, now, now, name, 0)])
            /\ inst' = [inst EXCEPT ![i] = [DocumentOf(id, Row(1, now, now, name, 0))
                                               EXCEPT !.conn = getConnection(ctx)]]
            /\ loaded' = [loaded EXCEPT ![i] = Row(1, now, now, name, 0)]
            /\ call' = [Call("create", ctx, getConnection(ctx), <<"INSERT">>, FALSE, 0, 1,
                             FALSE) EXCEPT !.hook = TRUE]
    /\ UNCHANGED <<softDelete, now>>
    /\ UNCHANGED cvars

\* Model.create({name}): the constructor generates the _id
Create(ctx, i, id, name) ==
    /\ Caller(ctx) /\ inst[i].pc = "idle" /\ isUnused(id)
    /\ Insert(ctx, i, id, name)

\* Model.create({_id, name}): the caller gives the _id of a document that
\* was deleted
CreateWithId(ctx, i, id, name) ==
    /\ Caller(ctx) /\ inst[i].pc = "idle"
    /\ table[id].st = "gone" /\ tx.ov[id].st = "same"
    /\ Insert(ctx, i, id, name)

\* the row find1 selects: data->>'_id' = $1 [AND data->>'_deletedAt' IS NULL]
find1Selects(r) == r.st = "live" /\ (softDelete => r.del = 0)

\* Model.find1(id)
Find1(ctx, i, id) ==
    /\ Caller(ctx) /\ inst[i].pc = "idle"
    /\ IF find1Selects(viewOf(getConnection(ctx))[id])
       THEN /\ inst' = [inst EXCEPT ![i] = DocumentOf(id, viewOf(getConnection(ctx))[id])]
            /\ loaded' = [loaded EXCEPT ![i] = viewOf(getConnection(ctx))[id]]
            /\ call' = CallOn("find1", ctx, getConnection(ctx), <<"SELECT">>, i, {id},
                              FALSE, FALSE)
       ELSE /\ UNCHANGED <<inst, loaded>>
            /\ call' = CallOn("find1", ctx, getConnection(ctx), <<"SELECT">>, i, {},
                              FALSE, FALSE)
    /\ NoWrite
    /\ UNCHANGED <<softDelete, now>>
    /\ UNCHANGED cvars

\* doc.name = value
Assign(i, name) ==
    /\ call.k < MaxCalls
    /\ inst[i].st = "held" /\ inst[i].pc = "idle" /\ inst[i].name # name
    /\ inst' = [inst EXCEPT ![i].name = name]
    /\ call' = Call("assign", "none", "none", <<>>, FALSE, i, 0, FALSE)
    /\ NoWrite
    /\ UNCHANGED <<softDelete, loaded, now>>
    /\ UNCHANGED cvars

\* doc.status = value
SetStatus(i, status) ==
    /\ call.k < MaxCalls
    /\ inst[i].st = "held" /\ inst[i].pc = "idle" /\ inst[i].status # status
    /\ inst' = [inst EXCEPT ![i].status = status]
    /\ call' = Call("assign", "none", "none", <<>>, FALSE, i, 0, FALSE)
    /\ NoWrite
    /\ UNCHANGED <<softDelete, loaded, now>>
    /\ UNCHANGED cvars

\* an UPDATE without the version predicate
matchesAnyVersion(r, originalVersion) == r.st = "live"

\* UPDATE ... WHERE data->>'_id' = $2 AND (data->>'_vers')::int = $3
updateMatches(r, originalVersion) == r.st = "live" /\ r.vers = originalVersion

\* lines 144-146: this._mtime = Date.now(); saveData = toJSON() with
\* _vers = (this._vers || 0) + 1
saveData(d, t) == [toJSON(d) EXCEPT !.mtime = t, !.vers = d.vers + 1]

\* save() of a held instance whose UPDATE found its row
SaveDone(ctx, i, conn) ==
    /\ Write(conn, [viewOf(conn) EXCEPT ![inst[i].id] = saveData(inst[i], now)])
    /\ inst' = [inst EXCEPT ![i].mtime = now, ![i].vers = inst[i].vers + 1,
                            ![i].orig = inst[i].vers + 1, ![i].res = "ok",
                            ![i].conn = conn]
    /\ loaded' = [loaded EXCEPT ![i] = saveData(inst[i], now)]
    /\ call' = [Call("save", ctx, conn, <<"UPDATE">>, FALSE, i, 1, FALSE)
                  EXCEPT !.hook = TRUE]

\* save() of a held instance whose UPDATE returned no row: the SELECT follows
SaveMissed(ctx, i, conn) ==
    /\ NoWrite
    /\ inst' = [inst EXCEPT ![i].mtime = now, ![i].pc = "check", ![i].res = "none",
                            ![i].conn = conn]
    /\ UNCHANGED loaded
    /\ call' = [Call("save", ctx, conn, <<"UPDATE">>, FALSE, i, 0, FALSE)
                  EXCEPT !.hook = TRUE]

\* save() that throws before any statement: lines 127-129 with the errors of
\* the validation, or line 144 on a frozen instance, after the preSave hook
SaveThrows(ctx, i, conn, res, errors) ==
    /\ NoWrite
    /\ inst' = [inst EXCEPT ![i].res = res, ![i].conn = conn]
    /\ UNCHANGED loaded
    /\ call' = [Call("save", ctx, conn, <<>>, TRUE, i, 0, FALSE)
                  EXCEPT !.hook = res # "invalid", !.errors = errors]

\* doc.save() up to and including its UPDATE
Save(ctx, i) ==
    /\ Caller(ctx) /\ inst[i].st # "none" /\ inst[i].pc = "idle"
    /\ inst[i].vers < MaxVers
    /\ CASE ~validate(inst[i]).valid ->
                SaveThrows(ctx, i, getConnection(ctx), "invalid", validate(inst[i]).errors)
         [] validate(inst[i]).valid /\ inst[i].st = "frozen" ->
                SaveThrows(ctx, i, getConnection(ctx), "frozen", <<>>)
         [] validate(inst[i]).valid /\ inst[i].st = "held"
            /\ updateMatches(viewOf(getConnection(ctx))[inst[i].id], inst[i].orig) ->
                SaveDone(ctx, i, getConnection(ctx))
         [] OTHER -> SaveMissed(ctx, i, getConnection(ctx))
    /\ UNCHANGED <<softDelete, now>>
    /\ UNCHANGED cvars

\* lines 162-169: SELECT data->>'_vers' ... WHERE data->>'_id' = $1, then
\* the not-found Error or the OptimisticLockError
SaveCheck(i) ==
    /\ inst[i].pc = "check"
    /\ inst[i].conn = "client" => tx.pc = "cb"
    /\ inst' = [inst EXCEPT ![i].pc = "idle",
                            ![i].res = IF viewOf(inst[i].conn)[inst[i].id].st = "live"
                                       THEN "lock" ELSE "notfound"]
    /\ call' = Step("saveCheck", IF inst[i].conn = "client" THEN "tx" ELSE "none",
                    inst[i].conn, <<"SELECT">>, TRUE, i)
    /\ NoWrite
    /\ UNCHANGED <<softDelete, loaded, now>>
    /\ UNCHANGED cvars

\* doc.remove(): DELETE ... WHERE data->>'_id' = $1, then Object.freeze(this)
DocRemove(ctx, i) ==
    /\ Caller(ctx) /\ inst[i].st # "none" /\ inst[i].pc = "idle"
    /\ Write(getConnection(ctx),
             [id \in Ids |-> IF id = inst[i].id /\ viewOf(getConnection(ctx))[id].st = "live"
                             THEN GoneRow ELSE viewOf(getConnection(ctx))[id]])
    /\ inst' = [inst EXCEPT ![i].st = "frozen"]
    /\ call' = Call("docRemove", ctx, getConnection(ctx), <<"DELETE">>, FALSE, i, 0, FALSE)
    /\ UNCHANGED <<softDelete, loaded, now>>
    /\ UNCHANGED cvars

\* Date.now() advances
Tick ==
    /\ call.k < MaxCalls
    /\ now < MaxNow
    /\ now' = now + 1
    /\ call' = Call("tick", "none", "none", <<>>, FALSE, 0, 0, FALSE)
    /\ NoWrite
    /\ UNCHANGED <<softDelete, inst, loaded>>
    /\ UNCHANGED cvars

(***************************************************************************)
(* Model: find, findOne, count, remove, updateOne, updateMany              *)
(***************************************************************************)
\* !q || Object.keys(q).length === 0
isEmptyFilter(q) == q.t \in {"undef", "null"} \/ (q.t = "obj" /\ Len(q.a) = 0)

\* { ...q } as the caller gave it
asGiven(q, includeDeleted) == q.a

\* { ...q } with _deletedAt: null added when the model soft-deletes, the
\* caller did not ask for the deleted ones and the query does not name the
\* field
effectiveQuery(q, includeDeleted) ==
    IF softDelete /\ ~includeDeleted /\ Get(q, kDeletedAt) = Undefined
    THEN q.a \o <<Entry(kDeletedAt, Null)>>
    ELSE q.a

\* the live rows a WHERE clause selects, and whether the statement fails on
\* one of them
selectedIds(where, params, rows) ==
    {id \in Ids : /\ rows[id].st = "live"
                  /\ sqlTruth(where, params, rowData(id, rows[id])) = "T"}
failsOn(where, params, rows) ==
    \E id \in Ids : /\ rows[id].st = "live"
                    /\ sqlTruth(where, params, rowData(id, rows[id])) = "E"

\* the WHERE clause of SELECT "data" FROM "T" [WHERE ...] [LIMIT 1]
selectPrefix == C("SELECT") \o quoteIdent(<<"data">>) \o C("FROM") \o quoteIdent(Collection)
limitSuffix(limit) == IF limit > 0 THEN C("LIMIT") \o Taint(Digits(limit), "num") ELSE <<>>
whereOfSelect(sql, limit) ==
    SubSeq(sql, Len(selectPrefix) + 1, Len(sql) - Len(limitSuffix(limit)))

\* find after the rows were selected: every selected row becomes a Document
FindAll(ctx, conn, ids, opt) ==
    /\ call' = CallOn("find", ctx, conn, <<"SELECT">>, 0, ids, FALSE, opt)
    /\ UNCHANGED <<inst, loaded>>

\* findOne after the rows were selected: results[0] is any selected row
FindFirst(ctx, conn, i, ids, opt) ==
    IF ids = {}
    THEN /\ call' = CallOn("findOne", ctx, conn, <<"SELECT">>, i, {}, FALSE, opt)
         /\ UNCHANGED <<inst, loaded>>
    ELSE \E id \in ids :
            /\ call' = CallOn("findOne", ctx, conn, <<"SELECT">>, i, {id}, FALSE, opt)
            /\ inst' = [inst EXCEPT ![i] = DocumentOf(id, viewOf(conn)[id])]
            /\ loaded' = [loaded EXCEPT ![i] = viewOf(conn)[id]]

\* find / findOne after the statement was built
FindRun(op, ctx, conn, i, s, limit, opt) ==
    /\ IF s.threw
       THEN /\ call' = Call(op, ctx, conn, <<>>, TRUE, i, 0, FALSE)
            /\ UNCHANGED <<inst, loaded>>
       ELSE IF failsOn(whereOfSelect(s.sql, limit), s.params, viewOf(conn))
       THEN /\ call' = Call(op, ctx, conn, <<"SELECT">>, TRUE, i, 0, FALSE)
            /\ UNCHANGED <<inst, loaded>>
       ELSE IF limit = 0
       THEN FindAll(ctx, conn,
                    selectedIds(whereOfSelect(s.sql, limit), s.params, viewOf(conn)), opt)
       ELSE FindFirst(ctx, conn, i,
                      selectedIds(whereOfSelect(s.sql, limit), s.params, viewOf(conn)), opt)
    /\ NoWrite
    /\ UNCHANGED <<softDelete, now>>
    /\ UNCHANGED cvars

\* Model.find(q, {includeDeleted}): the documents are counted, not kept
Find(ctx, q, includeDeleted) ==
    /\ Caller(ctx)
    /\ FindRun("find", ctx, getConnection(ctx), 0,
               buildSelectQueryAndParams(Collection, effectiveQuery(q, includeDeleted),
                                         <<>>, 0, 0), 0, includeDeleted)

\* Model.findOne(q, {includeDeleted}): find(q, {..., limit: 1})
FindOne(ctx, i, q, includeDeleted) ==
    /\ Caller(ctx) /\ inst[i].pc = "idle"
    /\ FindRun("findOne", ctx, getConnection(ctx), i,
               buildSelectQueryAndParams(Collection, effectiveQuery(q, includeDeleted),
                                         <<>>, 1, 0), 1, includeDeleted)

\* count after the clause was built
CountRun(op, ctx, conn, w, opt) ==
    /\ IF w.threw
       THEN call' = Call(op, ctx, conn, <<>>, TRUE, 0, 0, FALSE)
       ELSE IF failsOn(w.sql, w.params, viewOf(conn))
       THEN call' = Call(op, ctx, conn, <<"SELECT">>, TRUE, 0, 0, FALSE)
       ELSE call' = CallOn(op, ctx, conn, <<"SELECT">>, 0,
                           selectedIds(w.sql, w.params, viewOf(conn)), FALSE, opt)
    /\ NoWrite
    /\ UNCHANGED <<softDelete, inst, loaded, now>>
    /\ UNCHANGED cvars

\* Model.count(q, {includeDeleted})
Count(ctx, q, includeDeleted) ==
    /\ Caller(ctx)
    /\ CountRun("count", ctx, getConnection(ctx),
                buildWhereClauseAndParams(effectiveQuery(q, includeDeleted)), includeDeleted)

\* a call that returns or throws before it takes a connection
Refused(op, ctx, threw, empty) ==
    /\ call' = Call(op, ctx, "none", <<>>, threw, 0, 0, empty)
    /\ NoWrite
    /\ UNCHANGED <<softDelete, inst, loaded, now>>
    /\ UNCHANGED cvars

\* lines 180-190: the statement of remove and its parameters
removeStatement(w) ==
    IF softDelete
    THEN [kind |-> "UPDATE",
          sql |-> C("UPDATE") \o quoteIdent(Collection) \o C("SET") \o C("data") \o C("=")
                  \o C("jsonb_set") \o C("(") \o C("data") \o C(",")
                  \o Quote \o Lit("{_deletedAt}") \o Quote \o C(",")
                  \o C("to_jsonb") \o C("(") \o Placeholder(Len(w.params) + 1)
                  \o C("::numeric") \o C(")") \o C(")") \o w.sql,
          params |-> Append(w.params, IntV(now))]
    ELSE [kind |-> "DELETE",
          sql |-> C("DELETE") \o C("FROM") \o quoteIdent(Collection) \o w.sql,
          params |-> w.params]

\* the rows after DELETE ... WHERE ... , whatever the statement
deleted(rows, ids, kind, stamp) == [id \in Ids |-> IF id \in ids THEN GoneRow ELSE rows[id]]

\* the rows after UPDATE ... SET data = jsonb_set(data, '{_deletedAt}',
\* to_jsonb($n::numeric)) WHERE ... , or after DELETE ... WHERE ...
removed(rows, ids, kind, stamp) ==
    [id \in Ids |-> IF id \notin ids THEN rows[id]
                    ELSE IF kind = "UPDATE" THEN [rows[id] EXCEPT !.del = stamp]
                    ELSE GoneRow]

\* remove after the statement was built
RemoveIssue(ctx, conn, w, st, empty) ==
    IF failsOn(w.sql, w.params, viewOf(conn))
    THEN /\ call' = [Call("remove", ctx, conn, <<st.kind>>, TRUE, 0, 0, empty)
                       EXCEPT !.sql = st.sql, !.params = st.params]
         /\ NoWrite
    ELSE /\ call' = [CallOn("remove", ctx, conn, <<st.kind>>, 0,
                            selectedIds(w.sql, w.params, viewOf(conn)), empty, FALSE)
                       EXCEPT !.sql = st.sql, !.params = st.params]
         /\ Write(conn, removed(viewOf(conn), selectedIds(w.sql, w.params, viewOf(conn)),
                                st.kind, now))

\* remove after the clause was built
RemoveRun(ctx, conn, w, empty) ==
    /\ IF w.threw \/ Len(w.sql) = 0
       THEN /\ call' = Call("remove", ctx, conn, <<>>, TRUE, 0, 0, empty)
            /\ NoWrite
       ELSE RemoveIssue(ctx, conn, w, removeStatement(w), empty)
    /\ UNCHANGED <<softDelete, inst, loaded, now>>
    /\ UNCHANGED cvars

\* a guard that tests only !q
refusesMissing(q) == q.t \in {"undef", "null"}

\* lines 158-160: the guard of remove
removeRefuses(q) == isEmptyFilter(q)

\* Model.remove(q)
Remove(ctx, q) ==
    /\ Caller(ctx)
    /\ IF removeRefuses(q)
       THEN Refused("remove", ctx, TRUE, isEmptyFilter(q))
       ELSE RemoveRun(ctx, getConnection(ctx),
                      buildWhereClauseAndParams(effectiveQuery(q, FALSE)), isEmptyFilter(q))

\* PostgreSQL's grammar has no expression in which a quoted identifier
\* follows a string constant directly
constantThenIdentifier(text) ==
    \E i \in 1..(Len(text) - 1) :
        /\ text[i] = "'" /\ text[i + 1] = "\""
        /\ lexRange(text, 1, i)["out"] = "inq"
parses(sql) == ~constantThenIdentifier(TextOf(sql))

\* the row after SET data = <the nested jsonb_set_lax expression> of the
\* operators: $set {name: v} puts v at name
applied(r, ops) ==
    IF Get(Obj(ops), kSet).t = "obj" /\ Get(Get(Obj(ops), kSet), kName).t = "str"
    THEN [r EXCEPT !.name = Get(Get(Obj(ops), kSet), kName).s[1]]
    ELSE r

updated(rows, ids, ops) ==
    [id \in Ids |-> IF id \in ids THEN applied(rows[id], ops) ELSE rows[id]]

\* the UPDATE of updateOne / updateMany is issued.  Its path literals are
\* built as '{' "a" '}' to be read as the one literal '{"a"}' (comment of
\* #buildJsonbPath): a backend that reads them so runs the statement on
\* every row its WHERE clause selects; PostgreSQL's grammar rejects the
\* statement, db.query rejects and the method rethrows.
UpdateIssue(op, ctx, conn, u, ops, empty) ==
    \E accepted \in BOOLEAN :
        /\ ~accepted => ~parses(u.sql)
        /\ IF ~accepted \/ failsOn(u.where, u.filterParams, viewOf(conn))
           THEN /\ call' = [Call(op, ctx, conn, <<"UPDATE">>, TRUE, 0, 0, empty)
                              EXCEPT !.sql = u.sql, !.upd = ops]
                /\ NoWrite
           ELSE /\ call' = [CallOn(op, ctx, conn, <<"UPDATE">>, 0,
                                   selectedIds(u.where, u.filterParams, viewOf(conn)),
                                   empty, FALSE)
                              EXCEPT !.sql = u.sql, !.upd = ops,
                                     !.m = Cardinality(selectedIds(u.where, u.filterParams,
                                                                   viewOf(conn)))]
                /\ Write(conn, updated(viewOf(conn),
                                       selectedIds(u.where, u.filterParams, viewOf(conn)),
                                       ops))

\* lines 208-215: no operator was applied, the documents are counted
UpdateCount(op, ctx, conn, u, ops, empty) ==
    /\ IF failsOn(u.where, u.filterParams, viewOf(conn))
       THEN call' = [Call(op, ctx, conn, <<"SELECT">>, TRUE, 0, 0, empty) EXCEPT !.upd = ops]
       ELSE call' = [CallOn(op, ctx, conn, <<"SELECT">>, 0,
                            selectedIds(u.where, u.filterParams, viewOf(conn)), empty, FALSE)
                       EXCEPT !.upd = ops]
    /\ NoWrite

\* updateOne / updateMany after the statement was built
UpdateRun(op, ctx, conn, u, ops, empty) ==
    /\ IF u.threw
       THEN /\ call' = [Call(op, ctx, conn, <<>>, TRUE, 0, 0, empty) EXCEPT !.upd = ops]
            /\ NoWrite
       ELSE IF u.noop
       THEN UpdateCount(op, ctx, conn, u, ops, empty)
       ELSE UpdateIssue(op, ctx, conn, u, ops, empty)
    /\ UNCHANGED <<softDelete, inst, loaded, now>>
    /\ UNCHANGED cvars

\* lines 200-203 and 236-239: the guard of updateOne and updateMany
updateRefuses(filter) == isEmptyFilter(filter)

\* Model.updateOne(filter, updateOps)
UpdateOne(ctx, filter, ops) ==
    /\ Caller(ctx)
    /\ IF updateRefuses(filter)
       THEN Refused("updateOne", ctx, FALSE, isEmptyFilter(filter))
       ELSE UpdateRun("updateOne", ctx, getConnection(ctx), updateStatement(filter.a, ops),
                      ops, isEmptyFilter(filter))

\* Model.updateMany(filter, updateOps)
UpdateMany(ctx, filter, ops) ==
    /\ Caller(ctx)
    /\ IF updateRefuses(filter)
       THEN Refused("updateMany", ctx, FALSE, isEmptyFilter(filter))
       ELSE UpdateRun("updateMany", ctx, getConnection(ctx), updateStatement(filter.a, ops),
                      ops, isEmptyFilter(filter))

(***************************************************************************)
(* transaction(callback)                                                   *)
(***************************************************************************)
\* pc: "off" (no transaction is ever started), "idle", "begin" (the client is
\* connected, BEGIN is next), "cb" (the callback runs under
\* transactionContext), "commit", "rollback" (the inner catch), "outer" (the
\* outer catch), "release" (finally), "done".  stmts: the statements issued
\* on the client, each with whether it succeeded.  connected: the client's
\* _connected.  cb: how the callback ended.  err: the error being thrown.
\* outcome: how transaction() ended ("resolved" with the callback's value,
\* "rejected" with err).  released: the calls of
\* client.release(); relAt: the number of statements issued before the
\* first of them.  ov: the rows the transaction has written and not yet
\* committed.  depth: the calls of transaction() that run inside the
\* callback, one inside the other; deepest: the greatest depth so far;
\* failed: a nested call has rejected.
MaxDepth == 2   \* transaction() is nested at most MaxDepth deep

NoTx(at) ==
    [pc |-> at, stmts |-> <<>>, connected |-> FALSE, cb |-> "none", err |-> "none",
     outcome |-> "none", released |-> 0, relAt |-> 0, ov |-> [id \in Ids |-> Same],
     depth |-> 0, deepest |-> 0, failed |-> FALSE]

Stmt(s, ok) == [s |-> s, ok |-> ok]

\* how a statement on the client ends: "ok", "error" (the statement fails),
\* "lost" (the connection breaks); only a connected client can succeed
Outcomes == {"ok", "error", "lost"}
canEnd(o) == o = "ok" => tx.connected

TxStep(op) ==
    /\ call' = Step(op, "none", "none", <<>>, FALSE, 0)
    /\ UNCHANGED <<softDelete, inst, loaded, now>>
    /\ UNCHANGED cvars

\* lines 340-351: no ambient client; the pool hands out a client, or
\* pool.connect() rejects
TxConnect(ok) ==
    /\ tx.pc = "idle"
    /\ tx' = IF ok THEN [tx EXCEPT !.pc = "begin", !.connected = TRUE]
             ELSE [tx EXCEPT !.pc = "done", !.err = "connect", !.outcome = "rejected"]
    /\ UNCHANGED table
    /\ TxStep("transaction")

\* lines 342-346: transaction() called inside the callback runs its callback
\* on the ambient client and issues nothing
\* a nested call that opens a transaction of its own on the ambient client
TxNestedBegins ==
    /\ tx.pc = "cb" /\ tx.depth < MaxDepth
    /\ tx' = [tx EXCEPT !.depth = @ + 1, !.stmts = Append(@, Stmt("BEGIN", TRUE))]
    /\ UNCHANGED table
    /\ call' = Step("transaction", "tx", "client", <<"BEGIN">>, FALSE, 0)
    /\ UNCHANGED <<softDelete, inst, loaded, now>>
    /\ UNCHANGED cvars

TxNested ==
    /\ tx.pc = "cb" /\ tx.depth < MaxDepth
    /\ tx' = [tx EXCEPT !.depth = @ + 1,
                        !.deepest = IF tx.depth + 1 > @ THEN tx.depth + 1 ELSE @]
    /\ UNCHANGED table
    /\ call' = Step("transaction", "tx", "client", <<>>, FALSE, 0)
    /\ UNCHANGED <<softDelete, inst, loaded, now>>
    /\ UNCHANGED cvars

\* line 345: return await callback() of a nested call: its callback resolved
\* or rejected, and so does the nested call
TxNestedEnds(r) ==
    /\ tx.pc = "cb" /\ tx.depth > 0
    /\ \A i \in Instances : ~(inst[i].pc = "check" /\ inst[i].conn = "client")
    /\ tx' = [tx EXCEPT !.depth = @ - 1, !.failed = @ \/ r = "error"]
    /\ UNCHANGED table
    /\ call' = Step("nestedEnds", "tx", "client", <<>>, r = "error", 0)
    /\ UNCHANGED <<softDelete, inst, loaded, now>>
    /\ UNCHANGED cvars

\* line 354: await client.query('BEGIN')
TxBegin(o) ==
    /\ tx.pc = "begin" /\ canEnd(o)
    /\ tx' = [tx EXCEPT !.stmts = Append(@, Stmt("BEGIN", o = "ok")),
                        !.connected = @ /\ o # "lost",
                        !.pc = IF o = "ok" THEN "cb" ELSE "outer",
                        !.err = IF o = "ok" THEN "none" ELSE "begin"]
    /\ UNCHANGED table
    /\ TxStep("begin")

\* line 357: the callback resolves with its value or rejects with its error;
\* every call it awaited has ended
TxCallbackEnds(r) ==
    /\ tx.pc = "cb" /\ tx.depth = 0
    /\ \A i \in Instances : ~(inst[i].pc = "check" /\ inst[i].conn = "client")
    /\ tx' = [tx EXCEPT !.cb = r,
                        !.pc = IF r = "value" THEN "commit" ELSE "rollback",
                        !.err = IF r = "value" THEN "none" ELSE "callback"]
    /\ UNCHANGED table
    /\ TxStep("callbackEnds")

\* the committed table after the transaction's writes are applied
committed == [id \in Ids |-> IF tx.ov[id].st = "same" THEN table[id] ELSE tx.ov[id]]

\* a COMMIT outside of the try block: its failure is not caught
uncaught(o) == "release"

\* lines 358-363: a COMMIT that fails is caught by the inner catch
afterCommit(o) == IF o = "ok" THEN "release" ELSE "rollback"

\* line 358: await client.query('COMMIT')
TxCommit(o) ==
    /\ tx.pc = "commit" /\ canEnd(o)
    /\ tx' = [tx EXCEPT !.stmts = Append(@, Stmt("COMMIT", o = "ok")),
                        !.connected = @ /\ o # "lost",
                        !.pc = afterCommit(o),
                        !.err = IF o = "ok" THEN "none" ELSE "commit",
                        !.ov = [id \in Ids |-> Same]]
    /\ table' = IF o = "ok" THEN committed ELSE table
    /\ TxStep("commit")

\* lines 360-363: the inner catch issues ROLLBACK and rethrows; a ROLLBACK
\* that fails throws its own error instead
TxRollback(o) ==
    /\ tx.pc = "rollback" /\ canEnd(o)
    /\ tx' = [tx EXCEPT !.stmts = Append(@, Stmt("ROLLBACK", o = "ok")),
                        !.connected = @ /\ o # "lost",
                        !.pc = "outer",
                        !.err = IF o = "ok" THEN @ ELSE "rollback",
                        !.ov = [id \in Ids |-> Same]]
    /\ UNCHANGED table
    /\ TxStep("rollback")

\* lines 365-371: the outer catch issues ROLLBACK when the client is still
\* connected, swallows its failure, and rethrows
TxOuterCatch(o) ==
    /\ tx.pc = "outer" /\ canEnd(o)
    /\ ~tx.connected => o = "error"
    /\ tx' = [tx EXCEPT !.stmts = IF tx.connected
                                  THEN Append(@, Stmt("ROLLBACK", o = "ok")) ELSE @,
                        !.connected = @ /\ o # "lost",
                        !.pc = "release",
                        !.ov = [id \in Ids |-> Same]]
    /\ UNCHANGED table
    /\ TxStep("outerCatch")

\* lines 371-373: finally client.release(); then the promise settles
TxRelease ==
    /\ tx.pc = "release"
    /\ tx' = [tx EXCEPT !.released = @ + 1,
                        !.relAt = Len(tx.stmts),
                        !.pc = "done",
                        !.outcome = IF tx.err = "none" THEN "resolved" ELSE "rejected"]
    /\ UNCHANGED table
    /\ TxStep("release")

(***************************************************************************)
(* The store runs                                                          *)
(***************************************************************************)
ByName == Obj(<<Entry(kName, StrV(<<"x">>))>>)
StoreFilters == {Undefined, Obj(<<>>), ByName}
ReadFilters == {Obj(<<>>), ByName}
SetName == <<Entry(kSet, Obj(<<Entry(kName, StrV(<<"y">>))>>))>>
\* update documents with no applicable entry: an unsupported operator, a
\* $set that is no object, an empty $set, an $inc of a value that is no number
NoopUpdates ==
    {<<Entry(<<"$", "push">>, Obj(<<Entry(kName, StrV(<<"y">>))>>))>>,
     <<Entry(kSet, IntV(1))>>,
     <<Entry(kSet, Obj(<<>>)), Entry(kInc, Obj(<<Entry(kVers, StrV(<<"y">>))>>))>>}
StoreUpdates == NoopUpdates \cup {SetName}

\* the compiler's run variables are not part of the store runs
CompileOff ==
    /\ pc = "store" /\ query = <<>> /\ sort = <<>> /\ updateOps = <<>> /\ out = NoOut
    /\ ManagerOff

EmptyStore ==
    /\ CompileOff
    /\ table = [id \in Ids |-> FreeRow]
    /\ inst = [i \in Instances |-> NoInst]
    /\ loaded = [i \in Instances |-> FreeRow]
    /\ now = 1
    /\ call = NoCall

\* callers outside of any transaction
StoreInit ==
    /\ EmptyStore
    /\ softDelete \in BOOLEAN
    /\ tx = NoTx("off")

StoreNext ==
    \/ \E i \in Instances, id \in Ids, name \in Names \cup {NullName} :
           Create("none", i, id, name)
    \/ \E i \in Instances, id \in Ids : Find1("none", i, id)
    \/ \E i \in Instances, name \in Names \cup {NullName} : Assign(i, name)
    \/ \E i \in Instances : Save("none", i)
    \/ \E i \in Instances : SaveCheck(i)
    \/ \E i \in Instances : DocRemove("none", i)
    \/ \E q \in StoreFilters : Remove("none", q)
    \/ \E q \in StoreFilters, ops \in StoreUpdates : UpdateOne("none", q, ops)
    \/ \E q \in StoreFilters, ops \in StoreUpdates : UpdateMany("none", q, ops)
    \/ Tick

SpecStore == StoreInit /\ [][StoreNext]_vars

\* a model defined with softDelete: documents are created, removed and read
SoftInit ==
    /\ EmptyStore
    /\ softDelete = TRUE
    /\ tx = NoTx("off")

SoftNext ==
    \/ \E id \in Ids, name \in Names : Create("none", 1, id, name)
    \/ \E q \in {ByName} : Remove("none", q)
    \/ DocRemove("none", 1)
    \/ \E id \in Ids : Find1("none", 2, id)
    \/ \E q \in ReadFilters, includeDeleted \in BOOLEAN : Find("none", q, includeDeleted)
    \/ \E q \in ReadFilters, includeDeleted \in BOOLEAN : FindOne("none", 2, q, includeDeleted)
    \/ \E q \in ReadFilters, includeDeleted \in BOOLEAN : Count("none", q, includeDeleted)
    \/ Tick

SpecSoft == SoftInit /\ [][SoftNext]_vars

\* one transaction over one document, a caller inside of its callback and
\* callers outside
TxInit ==
    /\ EmptyStore
    /\ softDelete = FALSE
    /\ tx = NoTx("idle")

TxNext ==
    \/ \E ctx \in Contexts : Create(ctx, 1, "ida", "x")
    \/ \E ctx \in Contexts : Find1(ctx, 1, "ida")
    \/ \E ctx \in Contexts : Save(ctx, 1)
    \/ SaveCheck(1)
    \/ \E ctx \in Contexts : DocRemove(ctx, 1)
    \/ \E ctx \in Contexts : Find(ctx, ByName, FALSE)
    \/ \E ctx \in Contexts : FindOne(ctx, 1, ByName, FALSE)
    \/ \E ctx \in Contexts : Count(ctx, ByName, FALSE)
    \/ \E ctx \in Contexts : Remove(ctx, ByName)
    \/ \E ctx \in Contexts : UpdateOne(ctx, ByName, SetName)
    \/ \E ctx \in Contexts : UpdateMany(ctx, ByName, SetName)
    \/ \E ok \in BOOLEAN : TxConnect(ok)
    \/ \E o \in Outcomes : TxBegin(o)
    \/ \E r \in {"value", "error"} : TxCallbackEnds(r)
    \/ \E o \in Outcomes : TxCommit(o)
    \/ \E o \in Outcomes : TxRollback(o)
    \/ \E o \in Outcomes : TxOuterCatch(o)
    \/ TxRelease

SpecTx == TxInit /\ [][TxNext]_vars

\* one transaction whose callback calls transaction() again, creates and
\* loads documents; callers outside do the same
NestNext ==
    \/ \E ctx \in Contexts, id \in Ids : Create(ctx, 1, id, "x")
    \/ \E ctx \in Contexts, id \in Ids : Find1(ctx, 1, id)
    \/ \E ctx \in Contexts : DocRemove(ctx, 1)
    \/ \E ok \in BOOLEAN : TxConnect(ok)
    \/ TxNested
    \/ \E r \in {"value", "error"} : TxNestedEnds(r)
    \/ \E o \in Outcomes : TxBegin(o)
    \/ \E r \in {"value", "error"} : TxCallbackEnds(r)
    \/ \E o \in Outcomes : TxCommit(o)
    \/ \E o \in Outcomes : TxRollback(o)
    \/ \E o \in Outcomes : TxOuterCatch(o)
    \/ TxRelease

SpecNest == TxInit /\ [][NestNext]_vars

\* documents whose fields are assigned values the schema rejects, and saved
ValidNext ==
    \/ \E i \in Instances, name \in Names \cup {NullName} : Create("none", i, "ida", name)
    \/ \E i \in Instances : Find1("none", i, "ida")
    \/ \E i \in Instances, name \in Names \cup {NullName} : Assign(i, name)
    \/ \E i \in Instances, status \in Statuses : SetStatus(i, status)
    \/ \E i \in Instances : Save("none", i)
    \/ \E i \in Instances : SaveCheck(i)
    \/ \E i \in Instances : DocRemove("none", i)
    \/ Tick

SpecValid == StoreInit /\ [][ValidNext]_vars

(***************************************************************************)
(* The lock runs: two instances loaded for one stored document at the      *)
(* same version, each saved once                                           *)
(***************************************************************************)
LockInit ==
    /\ CompileOff
    /\ softDelete \in BOOLEAN
    /\ now \in 1..MaxNow
    /\ \E v \in 1..(MaxVers - 1), name \in Names :
          /\ table = [id \in Ids |-> IF id = "ida" THEN Row(v, 1, 1, name, 0) ELSE FreeRow]
          /\ loaded = [i \in Instances |-> Row(v, 1, 1, name, 0)]
          /\ \E names \in [Instances -> Names \cup {NullName}] :
                inst = [i \in Instances |->
                           [DocumentOf("ida", Row(v, 1, 1, name, 0)) EXCEPT !.name = names[i]]]
    /\ call = NoCall
    /\ tx = NoTx("off")

LockNext ==
    \/ \E i \in Instances : inst[i].res = "none" /\ Save("none", i)
    \/ \E i \in Instances : SaveCheck(i)

SpecLock == LockInit /\ [][LockNext]_vars

\* the race runs: the two instances are saved and removed, and the document
\* is created again under its _id, in any order
RaceNext ==
    \/ \E i \in Instances : Save("none", i)
    \/ \E i \in Instances : SaveCheck(i)
    \/ \E i \in Instances : DocRemove("none", i)
    \/ \E i \in Instances, name \in Names : CreateWithId("none", i, "ida", name)

SpecRace == LockInit /\ [][RaceNext]_vars

(***************************************************************************)
(* Claims about the store                                                  *)
(***************************************************************************)
\* a step that is a call of one of the methods ops
Calls(ops) == call'.k = call.k + 1 /\ call'.op \in ops

\* C6: remove(q) with an empty or missing q throws and issues no statement;
\* updateOne and updateMany with an empty or missing filter return
\* matchedCount 0 and modifiedCount 0 and issue no statement; in each case
\* every stored document is as it was.
C6_EmptyDestructiveCalls ==
    [][(Calls({"remove", "updateOne", "updateMany"}) /\ call'.empty) =>
          /\ call'.stmts = <<>>
          /\ table' = table /\ tx'.ov = tx.ov
          /\ call'.threw = (call'.op = "remove")
          /\ call'.n = 0 /\ call'.ids = {}]_vars

C6_Witness ==
    /\ call.op \in {"remove", "updateMany"} /\ call.empty /\ call.stmts = <<>>
    /\ softDelete /\ \E id \in Ids : table[id].st = "live"

\* C7: two instances loaded for one stored document at version v are both
\* saved: exactly one save succeeds, the stored _vers and the _vers of that
\* instance are v + 1, the other save throws OptimisticLockError, the stored
\* document is as the successful save wrote it and the _vers of the failing
\* instance is v.
C7_ExactlyOneSaveSucceeds ==
    (\A i \in Instances : inst[i].pc = "idle" /\ inst[i].res # "none" /\ validate(inst[i]).valid) =>
        \E w \in Instances : \E l \in Instances \ {w} :
            /\ inst[w].res = "ok" /\ inst[l].res = "lock"
            /\ inst[l].vers = loaded[l].vers
            /\ inst[w].vers = loaded[l].vers + 1
            /\ table["ida"].st = "live" /\ table["ida"].vers = loaded[l].vers + 1
            /\ table["ida"] = loaded[w]
            /\ table["ida"].name = inst[w].name

C7_Witness ==
    /\ \E w \in Instances : \E l \in Instances \ {w} :
          inst[w].res = "ok" /\ inst[l].res = "lock" /\ inst[w].name # inst[l].name
    /\ \A i \in Instances : inst[i].pc = "idle"

\* C8: save() of a loaded instance succeeds only if no other write (a save
\* of another instance, updateOne, updateMany, a soft-delete remove) changed
\* the stored document since the instance was loaded or last saved: the
\* document a successful save replaces is the one the instance was loaded
\* from or wrote last.
C8_SaveNeverOverwrites ==
    [][\A i \in Instances :
          (Calls({"save"}) /\ call'.who = i /\ call'.n = 1 /\ ~call'.threw) =>
              viewOf(call'.conn)[inst[i].id] = loaded[i]]_vars

(***************************************************************************)
(* Claims about transaction()                                              *)
(***************************************************************************)
issued(s) == {k \in DOMAIN tx.stmts : tx.stmts[k].s = s}
succeeded(s) == {k \in DOMAIN tx.stmts : tx.stmts[k].s = s /\ tx.stmts[k].ok}
beginOk == Len(tx.stmts) > 0 /\ tx.stmts[1] = Stmt("BEGIN", TRUE)
releasedOnce == tx.released = 1 /\ tx.relAt = Len(tx.stmts)

\* C9 as stated: BEGIN is issued before the callback starts; if the callback
\* resolves, COMMIT is issued after it and transaction() resolves; if it
\* rejects, ROLLBACK is issued, COMMIT is not, and transaction() rejects
\* with the callback's error; on every path the client is released once,
\* after the last statement.
C9_AsStated ==
    /\ tx.cb # "none" \/ tx.pc = "cb" => beginOk
    /\ tx.pc = "done" /\ tx.cb = "value" =>
          issued("COMMIT") = {2} /\ tx.outcome = "resolved"
    /\ tx.pc = "done" /\ tx.cb = "error" =>
          /\ issued("COMMIT") = {} /\ 2 \in issued("ROLLBACK")
          /\ tx.outcome = "rejected" /\ tx.err = "callback"
    /\ tx.pc = "done" /\ Len(tx.stmts) > 0 => releasedOnce

\* C9: BEGIN is issued on the client before the callback starts, and the
\* callback does not start when BEGIN fails.  If the callback resolves,
\* COMMIT is issued next; transaction() resolves exactly when COMMIT
\* succeeds; when COMMIT fails ROLLBACK is issued and transaction() rejects
\* with the error of COMMIT, or with that of the ROLLBACK if it fails too.
\* If the callback rejects, COMMIT is not issued, ROLLBACK is, and
\* transaction() rejects with the callback's error, or with that of the
\* ROLLBACK if it fails.  A client that was acquired is released once, after
\* the last statement issued on it.
C9_TransactionProtocol ==
    /\ tx.cb # "none" \/ tx.pc = "cb" => beginOk
    /\ tx.pc = "done" /\ Len(tx.stmts) > 0 /\ ~beginOk =>
          tx.cb = "none" /\ tx.outcome = "rejected" /\ tx.err = "begin"
    /\ tx.pc = "done" /\ tx.cb = "value" =>
          /\ issued("COMMIT") = {2}
          /\ (tx.outcome = "resolved") = tx.stmts[2].ok
          /\ tx.stmts[2].ok => Len(tx.stmts) = 2 /\ tx.err = "none"
          /\ ~tx.stmts[2].ok =>
                /\ 3 \in issued("ROLLBACK") /\ tx.outcome = "rejected"
                /\ tx.err = IF tx.stmts[3].ok THEN "commit" ELSE "rollback"
    /\ tx.pc = "done" /\ tx.cb = "error" =>
          /\ issued("COMMIT") = {} /\ 2 \in issued("ROLLBACK")
          /\ tx.outcome = "rejected"
          /\ tx.err = IF tx.stmts[2].ok THEN "callback" ELSE "rollback"
    /\ tx.outcome = "resolved" => tx.cb = "value"
    /\ tx.released <= 1
    /\ tx.pc = "done" => IF tx.err = "connect" THEN tx.released = 0 /\ tx.stmts = <<>>
                         ELSE releasedOnce

C9_Witness ==
    /\ tx.pc = "done" /\ tx.cb = "value" /\ tx.outcome = "rejected" /\ tx.err = "commit"
    /\ releasedOnce /\ Len(tx.stmts) = 4

ModelOps == {"create", "find", "findOne", "find1", "count", "save", "remove", "docRemove",
             "updateOne", "updateMany"}

\* C10: a method of a model or of a document called inside the callback
\* runs on the transaction's client, one called outside of any transaction
\* on the pool; a write made inside changes nothing a caller outside reads
\* until COMMIT succeeds and then changes it, and changes nothing ever if
\* the transaction is rolled back.
C10_BoundConnection ==
    [][/\ (Calls(ModelOps) /\ call'.conn # "none") =>
             call'.conn = IF call'.ctx = "tx" THEN "client" ELSE "pool"
       /\ (call'.op \in ModelOps \cup {"saveCheck"} /\ call'.conn = "client") =>
             table' = table
       /\ (call'.op \in ModelOps /\ call'.conn = "pool") =>
             /\ tx'.ov = tx.ov
             /\ call'.ids \subseteq {id \in Ids : table[id].st = "live"}
       /\ call'.op = "commit" =>
             table' = IF tx'.stmts[Len(tx'.stmts)].ok THEN committed ELSE table
       /\ call'.op \in {"rollback", "outerCatch", "release"} => table' = table
       /\ tx'.pc \in {"release", "done"} => tx'.ov = [id \in Ids |-> Same]]_vars

C10_Witness ==
    /\ tx.pc = "cb" /\ tx.ov["ida"].st = "live" /\ table["ida"].st = "free"
    /\ call.op = "count" /\ call.ctx = "none" /\ call.conn = "pool" /\ call.n = 0

\* C11 as stated: exactly one BEGIN and one COMMIT or ROLLBACK bracket the
\* whole nest of transaction() calls.
C11_AsStated ==
    tx.pc = "done" /\ beginOk =>
        /\ issued("BEGIN") = {1}
        /\ Cardinality(issued("COMMIT") \cup issued("ROLLBACK")) = 1

\* how the outermost call ends the transaction it began: one COMMIT that
\* succeeds, or, after the callback rejected or COMMIT failed, the ROLLBACK of
\* the inner catch and, while the client is connected, that of the outer catch
bracketed ==
    /\ issued("BEGIN") = {1}
    /\ Cardinality(issued("COMMIT")) <= 1
    /\ \/ succeeded("COMMIT") = {2} /\ Len(tx.stmts) = 2
       \/ /\ succeeded("COMMIT") = {}
          /\ Cardinality(issued("ROLLBACK")) \in {1, 2}
          /\ Cardinality(issued("ROLLBACK")) = 2 => tx.stmts[Len(tx.stmts) - 1].s = "ROLLBACK"

\* C11: a transaction(cb) call made while a transaction is active acquires
\* no client and issues no BEGIN, COMMIT or ROLLBACK; the methods its
\* callback calls run on the ambient client; at any nesting depth the
\* outermost call issues the one BEGIN and ends the transaction with one
\* COMMIT or, on failure, with one or two ROLLBACKs.
C11_NestedJoinsAmbient ==
    /\ [](tx.pc = "done" /\ beginOk => bracketed)
    /\ [][/\ (call'.op \in {"transaction", "nestedEnds"} /\ call'.ctx = "tx") =>
                 /\ tx'.stmts = tx.stmts /\ tx'.connected = tx.connected
                 /\ tx'.released = tx.released /\ tx'.ov = tx.ov /\ table' = table
                 /\ call'.stmts = <<>>
          /\ (Calls(ModelOps) /\ call'.ctx = "tx") => call'.conn = "client"]_vars

C11_Witness ==
    /\ tx.pc = "done" /\ tx.deepest = MaxDepth /\ beginOk /\ bracketed
    /\ Cardinality(issued("ROLLBACK")) = 2

(***************************************************************************)
(* Claims about a model defined with softDelete                            *)
(***************************************************************************)
isDeleted(id) == table[id].st = "live" /\ table[id].del > 0
named(id, name) == table[id].st = "live" /\ table[id].name = name

\* C12: on a model with softDelete, for a query that does not name
\* _deletedAt, find, findOne and count without includeDeleted, and find1,
\* return and count no document whose _deletedAt is set; with
\* includeDeleted they return and count the soft-deleted documents the query
\* matches too.
C12_DeletedAreHidden ==
    /\ (call.op \in {"find", "findOne", "count"} /\ ~call.opt) =>
          /\ ~call.threw
          /\ \A id \in call.ids : ~isDeleted(id)
          /\ call.op # "findOne" => \A id \in Ids : named(id, "x") /\ ~isDeleted(id)
                                                     => id \in call.ids
    /\ (call.op \in {"find", "count"} /\ call.opt) =>
          /\ ~call.threw /\ call.n = Cardinality(call.ids)
          /\ \A id \in Ids : named(id, "x") => id \in call.ids
    /\ (call.op = "findOne" /\ call.opt) =>
          /\ ~call.threw
          /\ (\E id \in Ids : named(id, "x")) => call.n = 1
          /\ call.n = 1 => inst[call.who].id \in call.ids /\ loaded[call.who].st = "live"
    /\ call.op = "find1" =>
          /\ \A id \in call.ids : ~isDeleted(id) /\ inst[call.who].id = id
          /\ call.n = 1 => loaded[call.who].del = 0 /\ inst[call.who].st = "held"

C12_Witness ==
    /\ call.op = "find" /\ ~call.opt /\ call.ids = {"idb"}
    /\ isDeleted("ida") /\ named("idb", "x")

\* C13: on a model with softDelete, remove(q) issues no DELETE but one
\* UPDATE whose last parameter, numbered after those of the WHERE clause, is
\* the timestamp; it sets _deletedAt on every document that matches q and is
\* not soft-deleted yet, removes no row and returns the number of documents
\* it marked.
C13_SoftRemoveMarks ==
    [][(Calls({"remove"}) /\ ~call'.empty) =>
          /\ ~call'.threw /\ call'.stmts = <<"UPDATE">>
          /\ Len(placeholdersIn(call'.sql)) = Len(call'.params)
          /\ placeholdersIn(call'.sql)[1] = Len(call'.params)
          /\ \A k \in 2..Len(call'.params) : placeholdersIn(call'.sql)[k] = k - 1
          /\ call'.params[Len(call'.params)] = IntV(now)
          /\ call'.ids = {id \in Ids : named(id, "x") /\ ~isDeleted(id)}
          /\ call'.n = Cardinality(call'.ids)
          /\ \A id \in Ids : table'[id] = IF id \in call'.ids
                                            THEN [table[id] EXCEPT !.del = now]
                                            ELSE table[id]]_vars

C13_Witness ==
    /\ call.op = "remove" /\ call.ids = {"idb"} /\ call.n = 1 /\ call.stmts = <<"UPDATE">>
    /\ isDeleted("ida") /\ isDeleted("idb")

\* C14: on a model with softDelete, remove() of a Document instance sets
\* _deletedAt on the stored row and does not delete the row.
C14_DocumentRemoveMarks ==
    [][(Calls({"docRemove"}) /\ softDelete /\ table[inst[call'.who].id].st = "live") =>
          /\ table'[inst[call'.who].id].st = "live"
          /\ table'[inst[call'.who].id].del > 0]_vars

(***************************************************************************)
(* Claims about $where and about the joining of clauses                    *)
(***************************************************************************)
\* the entries hold the key $where at some depth
RECURSIVE hasWhere(_)
hasWhere(entries) ==
    \E i \in DOMAIN entries : entries[i].k = kWhere \/ hasWhere(entries[i].v.a)

\* C15: a query that holds $where at any position - as a key of the
\* document at any depth or as an operator of a field - makes the compile
\* throw: no SQL and no parameters are returned.
C15_WhereAlwaysThrows ==
    (pc = "done" /\ out.kind \in {"select", "where"} /\ hasWhere(query)) => out.threw

\* the clause entry i of the query yields when it is compiled alone
soleClause(i) == processQueryObject(<<query[i]>>, JsonField, <<>>, <<>>).c
soleClauses == [i \in DOMAIN query |-> soleClause(i)]

\* what a document with the clauses cs compiles to
keptOf(cs) == Filter(cs, LAMBDA c : Len(c) > 0 /\ c # TRUE_)
composed(cs) ==
    IF \E i \in DOMAIN cs : cs[i] = FALSE_ THEN FALSE_
    ELSE IF Len(keptOf(cs)) > 0 THEN Join(keptOf(cs), C("AND"))
    ELSE IF \E i \in DOMAIN cs : cs[i] = TRUE_ THEN TRUE_
    ELSE <<>>

\* the SELECT for a compiled fragment
selectFor(fragment) ==
    selectPrefix \o (IF Len(fragment) = 0 THEN <<>> ELSE C("WHERE") \o fragment)
    \o buildSortClause(sort, JsonField)

selectOf(q) == pc = "done" /\ out.kind = "select" /\ query = q

kF == <<"a">>
\* C16: a query document compiles to FALSE when one of its clauses is FALSE,
\* else to the AND-join of its clauses that are neither empty nor TRUE, else
\* to TRUE when a clause was TRUE, else to nothing; the SELECT has no WHERE
\* for nothing and WHERE <fragment> otherwise.  {} gives the bare SELECT
\* without parameters, {$and: []} and {f: {$nin: []}} give WHERE TRUE,
\* {$or: []} and {f: {$in: []}} give WHERE FALSE.
C16_ClausesCompose ==
    /\ (pc = "done" /\ out.kind = "select" /\ ~out.threw) =>
          withoutPlaceholders(out.sql) = withoutPlaceholders(selectFor(composed(soleClauses)))
    /\ (selectOf(<<>>) /\ sort = <<>>) => out.sql = selectPrefix /\ out.params = <<>>
    /\ \A q \in {<<Entry(kAnd, Arr(<<>>))>>, <<Entry(kF, Op1(kNin, Arr(<<>>)))>>} :
          selectOf(q) => out.sql = selectPrefix \o C("WHERE") \o C("TRUE") /\ ~out.threw
    /\ \A q \in {<<Entry(kOr, Arr(<<>>))>>, <<Entry(kF, Op1(kIn, Arr(<<>>)))>>} :
          selectOf(q) => out.sql = selectPrefix \o C("WHERE") \o C("FALSE") /\ ~out.threw

\* a SELECT was built for a document of two clauses of which one is TRUE and
\* one is kept
C16_Witness ==
    /\ pc = "done" /\ out.kind = "select" /\ ~out.threw
    /\ Len(query) = 2
    /\ \E i \in DOMAIN query : soleClause(i) = TRUE_
    /\ Len(keptOf(soleClauses)) = 1

(***************************************************************************)
(* Claims about save() whose UPDATE matched no row                         *)
(***************************************************************************)
\* C17: when the UPDATE of save() matched no row, whatever other saves,
\* removes and creates of the same _id ran in between, the
\* OptimisticLockError is thrown only if a row of that _id exists whose
\* stored version differs from the version the instance expected, and the
\* not-found error is thrown if no row of that _id exists.
C17_LockErrorMeansOtherVersion ==
    \A i \in Instances :
       (call.op = "saveCheck" /\ call.who = i) =>
          /\ inst[i].res = "lock" =>
                table[inst[i].id].st = "live" /\ table[inst[i].id].vers # inst[i].orig
          /\ table[inst[i].id].st # "live" => inst[i].res = "notfound"

(***************************************************************************)
(* Claims about validation                                                 *)
(***************************************************************************)
\* the fields of d that fail their required or validate check, in the order
\* of the schema
failingFields(d) ==
    SelectSeq(<<"name", "status">>,
              LAMBDA f : (f = "name" /\ d.name = NullName) \/ (f = "status" /\ d.status = "bad"))

errorsList(d, errors) ==
    /\ Len(errors) = Len(failingFields(d))
    /\ \A k \in DOMAIN errors : \E f \in {"name is required", "status: rejected"} :
          /\ errors[k] = f
          /\ (failingFields(d)[k] = "name") = (f = "name is required")

\* C18: save() of a document that fails a required or validate check throws
\* one error that lists every failing field, before the preSave hook runs
\* and before any INSERT or UPDATE; the stored document and the _vers of the
\* instance are as they were.
C18_FailedValidationChangesNothing ==
    [][/\ (Calls({"create"}) /\ call'.threw) =>
             /\ call'.errors = <<"name is required">> /\ ~call'.hook
             /\ call'.stmts = <<>> /\ table' = table /\ inst' = inst
       /\ \A i \in Instances :
          (Calls({"save"}) /\ call'.who = i /\ Len(failingFields(inst[i])) > 0) =>
             /\ call'.threw /\ inst'[i].res = "invalid"
             /\ errorsList(inst[i], call'.errors)
             /\ ~call'.hook
             /\ call'.stmts = <<>>
             /\ table' = table
             /\ inst'[i].vers = inst[i].vers /\ inst'[i].orig = inst[i].orig]_vars

\* a save was refused for two failing fields while the document is stored
C18_Witness ==
    /\ call.op = "save" /\ call.threw /\ Len(call.errors) = 2
    /\ \E id \in Ids : table[id].st = "live" /\ inst[call.who].id = id

(***************************************************************************)
(* Claims about updateOne and updateMany                                   *)
(***************************************************************************)
\* the documents a call changed
changedBy == {id \in Ids : table'[id] # table[id]}

\* C19: updateOne with a filter that is not empty modifies at most one stored
\* document and returns counts of at most 1, even when several documents
\* match the filter.
C19_UpdateOneUpdatesOne ==
    [][(Calls({"updateOne"}) /\ ~call'.empty /\ ~call'.threw) =>
          Cardinality(changedBy) <= 1 /\ call'.n <= 1]_vars

\* the update document has an entry that is applied: a field of a $set map,
\* or a field of an $inc map whose value is a number
isApplicable(ops) ==
    \E i \in DOMAIN ops :
       \/ ops[i].k = kSet /\ ops[i].v.t = "obj" /\ Len(ops[i].v.a) > 0
       \/ /\ ops[i].k = kInc /\ ops[i].v.t = "obj"
          /\ \E j \in DOMAIN ops[i].v.a : ops[i].v.a[j].v.t = "int"

\* the stored documents whose name is x, the documents ByName selects
namedX == {id \in Ids : table[id].st = "live" /\ table[id].name = "x"}

\* C20: for an update document without an applicable entry
\* buildUpdateSetExpressionAndParams returns null, and updateOne and
\* updateMany issue no UPDATE: they issue the COUNT over the filter alone
\* and return matchedCount = that count and modifiedCount = 0; every stored
\* document is as it was.
C20_NoopUpdateOnlyCounts ==
    [][(/\ Calls({"updateOne", "updateMany"}) /\ call'.conn # "none"
        /\ ~isApplicable(call'.upd)) =>
          /\ buildUpdateSetExpressionAndParams(call'.upd).isNull
          /\ call'.stmts = <<"SELECT">> /\ ~call'.threw
          /\ call'.n = Cardinality(namedX) /\ call'.m = 0
          /\ table' = table]_vars

\* an update without an applicable entry counted two documents
C20_Witness ==
    /\ call.op \in {"updateOne", "updateMany"} /\ call.stmts = <<"SELECT">>
    /\ call.n = 2 /\ call.m = 0

(***************************************************************************)
(* The guard runs: filters that are not empty and constrain nothing        *)
(***************************************************************************)
\* {$and: []} compiles to TRUE, {$comment: 1} (an operator the compiler does
\* not know) to nothing
Unconstraining ==
    {Obj(<<Entry(kAnd, Arr(<<>>))>>), Obj(<<Entry(<<"$", "comment">>, IntV(1))>>)}
GuardFilters == Unconstraining \cup {ByName}

GuardNext ==
    \/ \E id \in Ids, name \in Names : Create("none", 1, id, name)
    \/ \E q \in GuardFilters : Remove("none", q)
    \/ \E q \in GuardFilters : UpdateOne("none", q, SetName)
    \/ \E q \in GuardFilters : UpdateMany("none", q, SetName)
    \/ Tick

SpecGuard == StoreInit /\ [][GuardNext]_vars

\* C21: remove, updateOne and updateMany with a filter that is not empty and
\* compiles to no constraint (nothing, or the constant TRUE) are rejected or
\* change nothing, and send no UPDATE and no DELETE.
C21_NoUnconstrainedWrite ==
    [][\A q \in Unconstraining :
          (Remove("none", q) \/ UpdateOne("none", q, SetName)
           \/ UpdateMany("none", q, SetName)) =>
             /\ call'.threw \/ table' = table
             /\ \A k \in DOMAIN call'.stmts : call'.stmts[k] \notin {"UPDATE", "DELETE"}]_vars

(***************************************************************************)
(* Claims about documents that were soft-deleted                           *)
(***************************************************************************)
\* C22: in a model defined with softDelete, the _deletedAt of a stored
\* document, once set, is not cleared and not changed by a later
\* remove(query), save(), updateOne or updateMany that does not name
\* _deletedAt: a second remove does not stamp it again, and a save of an
\* instance of the document does not make it visible again.
C22_DeletedAtIsKept ==
    [][\A id \in Ids :
          (/\ softDelete /\ table[id].st = "live" /\ table[id].del > 0
           /\ Calls({"remove", "save", "updateOne", "updateMany"})) =>
             table'[id].st = "live" /\ table'[id].del = table[id].del]_vars

(***************************************************************************)
(* Claims about a nested transaction() that fails                          *)
(***************************************************************************)
\* C23: nested calls are flattened without savepoints, so when the callback
\* of a nested transaction() rejects, none of the writes of the outer
\* transaction is committed, whether the outer callback catches the error
\* or not.
C23_InnerFailureRollsBackAll ==
    [][(tx.failed /\ call'.op = "commit") => table' = table]_vars

(***************************************************************************)
(* Claims about the grouping of the emitted clause                         *)
(***************************************************************************)
\* the pieces that open a parenthesis
Opens == {"(", "ALL(", "ANY(", "COALESCE(", "jsonb_array_length(", "jsonb_set_lax(",
          "jsonb_typeof(", "to_jsonb("}

\* the number of parentheses open after piece i of sql
RECURSIVE depthAt(_, _)
depthAt(sql, i) ==
    IF i = 0 THEN 0
    ELSE depthAt(sql, i - 1)
         + (IF sql[i].u = "code" /\ sql[i].s \in Opens THEN 1
            ELSE IF sql[i] = Tok(")", "code") THEN -1 ELSE 0)

\* an OR outside of every parenthesis
hasTopLevelOr(sql) ==
    \E i \in DOMAIN sql : sql[i] = Tok("OR", "code") /\ depthAt(sql, i) = 0

\* a NOT whose operand is not in parentheses
hasBareNot(sql) ==
    \E i \in DOMAIN sql :
       sql[i] = Tok("NOT", "code") /\ (i = Len(sql) \/ sql[i + 1] # Tok("(", "code"))

\* the clause (after WHERE) is one parenthesis
isEnclosed(sql) ==
    /\ Len(sql) > 2 /\ sql[2] = Tok("(", "code") /\ sql[Len(sql)] = Tok(")", "code")
    /\ \A i \in 2..(Len(sql) - 1) : depthAt(sql, i) > 0

\* the truth value of a compiled clause on a row
truthOfClause(w, row) == IF w.threw THEN "E" ELSE sqlTruth(w.sql, w.params, row)
truthOf(q, row) == truthOfClause(buildWhereClauseAndParams(q), row)

RECURSIVE allAnd3(_, _, _)
allAnd3(q, i, row) ==
    IF i > Len(q) THEN "T" ELSE And3(truthOf(<<q[i]>>, row), allAnd3(q, i + 1, row))

\* the stored documents, each also with _deletedAt set
RowsWithDeleted == Rows \cup {Obj(r.a \o <<Entry(kDeletedAt, IntV(5))>>) : r \in Rows}

\* the operator keys of a field clause that count for its wrapping
wrappingKeys(v) == Filter(Keys(v), LAMBDA k : k # kOptions)

\* C24: read with SQL's precedence, the emitted clause has the structure of
\* the query: no OR-join is outside of parentheses, a field clause of
\* several operators is enclosed in parentheses, NOT has a parenthesized
\* operand; so the AND-join of the clauses of a document, the conjunct for
\* _deletedAt included, is true exactly where every clause is.
C24_GroupingFollowsNesting ==
    (pc = "done" /\ out.kind = "where" /\ ~out.threw) =>
        /\ ~hasTopLevelOr(out.sql)
        /\ ~hasBareNot(out.sql)
        /\ (/\ Len(query) = 1 /\ isOperatorObject(query[1].v)
            /\ Len(wrappingKeys(query[1].v)) > 1
            /\ Len(out.sql) > 2) => isEnclosed(out.sql)
        /\ \A row \in RowsWithDeleted :
              allAnd3(query \o <<Entry(kDeletedAt, Null)>>, 1, row) # "E" =>
                 truthOf(query \o <<Entry(kDeletedAt, Null)>>, row)
                    = allAnd3(query \o <<Entry(kDeletedAt, Null)>>, 1, row)

\* a clause was compiled for a field next to an $or of two operands
C24_Witness ==
    /\ pc = "done" /\ out.kind = "where" /\ ~out.threw
    /\ Len(query) = 2
    /\ \E i \in DOMAIN query : query[i].k = kOr /\ Len(query[i].v.a) = 2
    /\ \E i \in DOMAIN out.sql : out.sql[i] = Tok("OR", "code")
    /\ \E i \in DOMAIN out.sql : out.sql[i] = Tok("AND", "code")

(***************************************************************************)
(* C26: when a transaction's writes are discarded, every instance that was *)
(* saved inside it agrees with the store: its _vers and the version its    *)
(* next save expects are the stored _vers, and an instance whose INSERT    *)
(* was discarded is new again                                              *)
(***************************************************************************)
\* the instance's last save ran on the transaction's client and wrote
savedInside(i) ==
    /\ inst[i].st = "held" /\ inst[i].pc = "idle"
    /\ inst[i].conn = "client" /\ inst[i].res \in {"ok", "none"}

\* the step discards what the transaction wrote to id
discards(id) == tx.ov[id].st # "same" /\ tx'.ov[id].st = "same" /\ table' = table

agreesWithStore(d, r) ==
    IF r.st = "live" THEN d.vers = r.vers /\ d.orig = r.vers ELSE isNew(d)

C26_RollbackRestoresInstances ==
    [][\A i \in Instances :
          (savedInside(i) /\ discards(inst[i].id))
             => agreesWithStore(inst'[i], table'[inst[i].id])]_vars

(***************************************************************************)
(* The '$in' runs: one field with an '$in' over an array of mixed elements *)
(***************************************************************************)
MaxIn == 3   \* elements of the operand of '$in'
Two == StrV(<<"t", "w", "o">>)
InElems == {IntV(1), IntV(3), FloatV(15), BoolV(TRUE), Two, Obj(<<>>), Null, Undefined}
InArrays == UNION {[1..k -> InElems] : k \in 1..MaxIn}
                \cup {<<IntV(1), Two, Null, IntV(3)>>}
InQueries == {<<Entry(<<"a">>, Op1(kIn, Arr(A)))>> : A \in InArrays}

InInit ==
    /\ StoreOff
    /\ ManagerOff
    /\ pc = "ready"
    /\ out = NoOut
    /\ query \in InQueries /\ sort = <<>> /\ updateOps = <<>>

InNext == BuildSelect \/ BuildWhere

SpecIn == InInit /\ [][InNext]_vars

\* the operand of the run's '$in'
inOperand == Elems(query[1].v.a[1].v)
isWhole(v) == v.t = "int"
isFraction(v) == v.t = "float"
isBoolean(v) == v.t = "bool"
isString(v) == v.t = "str"
isObject(v) == v.t \in {"obj", "arr"}
isDefined(v) == v.t \notin {"null", "undef"}
isUndefined(v) == v.t = "undef"

\* the groups of the operand in the order integer, number, boolean, string,
\* object, the empty ones left out
nonEmptyOf(groups) == SelectSeq(groups, LAMBDA g : Len(g) > 0)
groupsOf(A) ==
    nonEmptyOf(<<SelectSeq(A, isWhole), SelectSeq(A, isFraction), SelectSeq(A, isBoolean),
                 SelectSeq(A, isString), SelectSeq(A, isObject)>>)
paramsOf(groups) == [k \in DOMAIN groups |-> Arr(groups[k])]

RECURSIVE sumLen(_)
sumLen(ps) == IF Len(ps) = 0 THEN 0 ELSE Len(Head(ps).a) + sumLen(Tail(ps))

anyCount(sql) == Len(SelectSeq(sql, LAMBDA t : t = Tok("ANY(", "code")))
hasNullCheck(sql) == \E i \in DOMAIN sql : sql[i] = Tok("IS NULL", "code")
hasNullElement(A) == \E i \in DOMAIN A : A[i].t = "null"

inRan == pc = "done" /\ query \in InQueries /\ ~out.threw
Example == <<Entry(<<"a">>, Op1(kIn, Arr(<<IntV(1), Two, Null, IntV(3)>>)))>>

sqlOpOf(k) == CASE k = kGt -> ">" [] k = kGte -> ">=" [] k = kLt -> "<" [] OTHER -> "<="

isPrimitiveElemMatch(q) ==
    /\ Len(q) = 1 /\ ~startsWithDollar(q[1].k)
    /\ q[1].v.t = "obj" /\ Len(q[1].v.a) = 1 /\ q[1].v.a[1].k = kElemMatch
    /\ q[1].v.a[1].v.t = "obj" /\ Len(q[1].v.a[1].v.a) > 0
    /\ \A i \in DOMAIN q[1].v.a[1].v.a :
          q[1].v.a[1].v.a[i].k \in {kGt, kGte, kLt, kLte}

\* the conjunct of the inner operator i: (elem_val.value)::numeric <op> ...
constrainsElement(sql, k) ==
    \E j \in DOMAIN sql :
       /\ sql[j] = Tok(sqlOpOf(k), "code")
       /\ \E l \in 1..(j - 1) : sql[l] = Tok("elem_val", "code")

C28_ElemMatchAppliesAll ==
    (pc = "done" /\ out.kind \in {"where", "select"} /\ ~out.threw
       /\ isPrimitiveElemMatch(query))
       => \A i \in DOMAIN query[1].v.a[1].v.a :
             constrainsElement(out.sql, query[1].v.a[1].v.a[i].k)

(***************************************************************************)
(* C29: an '$and' with an operand that compiles to FALSE compiles to the   *)
(* constant FALSE, at the top of the query and below another operator      *)
(***************************************************************************)
\* what a sub-document compiles to on its own
compiledAlone(d) == processQueryObject(d, JsonField, <<>>, <<>>)

\* the operand lists of the '$and' entries of a document
andsOf(d) == {d[i].v : i \in {j \in DOMAIN d : d[j].k = kAnd /\ isArray(d[j].v)}}

\* the sub-documents under the logical entries of a document
subDocsOf(d) ==
    UNION {IF isArray(d[i].v) THEN {d[i].v.a[j].v.a : j \in DOMAIN d[i].v.a}
           ELSE IF d[i].v.t = "obj" THEN {d[i].v.a} ELSE {} :
           i \in {j \in DOMAIN d : isLogicalOperator(d[j].k)}}

andsIn(q) == andsOf(q) \cup UNION {andsOf(sd) : sd \in subDocsOf(q)}

hasFalseOperand(a) ==
    /\ \E i \in DOMAIN a.a : compiledAlone(a.a[i].v.a).c = FALSE_
    /\ \A i \in DOMAIN a.a : ~compiledAlone(a.a[i].v.a).e

C29_AndCollapsesToFalse ==
    (pc = "done" /\ out.kind = "where" /\ ~out.threw) =>
       \A a \in andsIn(query) :
          hasFalseOperand(a)
             => /\ handleLogicalOperator(kAnd, a, JsonField, <<>>, <<>>).c = FALSE_
                /\ query = <<Entry(kAnd, a)>> => out.sql = C("WHERE") \o FALSE_

(***************************************************************************)
(* C30: the emitted SQL of no query contains 'dummy_access' or             *)
(* 'dummy_json', the paths handed to the operators of a document-scope     *)
(* '$not' over a pure operator object                                      *)
(***************************************************************************)
isDummy(t) == t.s \in {"dummy_access", "dummy_json"}

C30_NoDummyPathEmitted ==
    (pc = "done" /\ ~out.threw) => \A i \in DOMAIN out.sql : ~isDummy(out.sql[i])

(***************************************************************************)
(* DatabaseManager.getConnection: concurrent callers outside of any        *)
(* transaction.  A caller runs from one await to the next in one step;     *)
(* between two steps of a caller every other caller may run.               *)
(***************************************************************************)
MaxPools == 3
Callers == {"c1", "c2", "c3"}
NoPool == 0

\* a caller that has not called yet
NoCaller == [at |-> "idle", db |-> NoPool, got |-> NoPool, failed |-> FALSE]

PoolOff ==
    /\ pc = "pool" /\ query = <<>> /\ sort = <<>> /\ updateOps = <<>> /\ out = NoOut
    /\ StoreOff

\* a fresh process: static instance: Pool | null = null
PoolInit ==
    /\ PoolOff
    /\ manager = [instance |-> NoPool, created |-> 0, callers |-> [c \in Callers |-> NoCaller]]

poolUnchanged == UNCHANGED <<pc, query, sort, updateOps, out, softDelete, table, inst, loaded, now, call, tx>>

\* if (this.instance) { await this.createSchemas(this.instance) ... }
\* else: new Pool(tempConfig); await tempPool.query(...)
GetConnectionStarts(c) ==
    /\ pc = "pool"
    /\ manager.callers[c].at = "idle"
    /\ manager' = [manager EXCEPT !.callers[c].at =
                      IF manager.instance # NoPool THEN "schemas" ELSE "probe"]
    /\ poolUnchanged

\* after await this.createSchemas(this.instance): return this.instance
ReturnInstance(c) ==
    /\ pc = "pool"
    /\ manager.callers[c].at = "schemas"
    /\ manager' = [manager EXCEPT !.callers[c].at = "done",
                                  !.callers[c].got = manager.instance]
    /\ poolUnchanged

\* the temporary pool's queries settle; finally: await tempPool.end()
ProbeEnds(c, ok) ==
    /\ pc = "pool"
    /\ manager.callers[c].at = "probe"
    /\ manager' = [manager EXCEPT !.callers[c].at = IF ok THEN "open" ELSE "done",
                                  !.callers[c].failed = ~ok]
    /\ poolUnchanged

\* const db = new Pool(this.config); await this.createSchemas(db)
OpenPool(c) ==
    /\ pc = "pool"
    /\ manager.callers[c].at = "open"
    /\ manager.created < MaxPools
    /\ manager' = [manager EXCEPT !.created = @ + 1,
                                  !.callers[c].db = manager.created + 1,
                                  !.callers[c].at = "made"]
    /\ poolUnchanged

\* this.instance = db; return db
AssignInstance(c) ==
    /\ pc = "pool"
    /\ manager.callers[c].at = "made"
    /\ manager' = [manager EXCEPT !.instance = manager.callers[c].db,
                                  !.callers[c].got = manager.callers[c].db,
                                  !.callers[c].at = "done"]
    /\ poolUnchanged

\* a caller whose call failed calls again
CallAgain(c) ==
    /\ pc = "pool"
    /\ manager.callers[c].at = "done"
    /\ manager.callers[c].failed
    /\ manager' = [manager EXCEPT !.callers[c] = NoCaller]
    /\ poolUnchanged

PoolNext ==
    \E c \in Callers :
       \/ GetConnectionStarts(c)
       \/ ReturnInstance(c)
       \/ \E ok \in BOOLEAN : ProbeEnds(c, ok)
       \/ OpenPool(c)
       \/ AssignInstance(c)
       \/ CallAgain(c)

SpecPool == PoolInit /\ [][PoolNext]_vars

(***************************************************************************)
(* C25: over every interleaving of concurrent getConnection() calls, at    *)
(* most one long-lived Pool is ever created and every caller that got a    *)
(* Pool got the same one                                                   *)
(***************************************************************************)
C25_OnePoolForAll ==
    manager # <<>> =>
       /\ manager.created <= 1
       /\ \A c, d \in Callers :
             (manager.callers[c].got # NoPool /\ manager.callers[d].got # NoPool)
                => manager.callers[c].got = manager.callers[d].got


====
